---- MODULE Spec2Model ----
(***************************************************************************)
(* Device-control core of the night light: the PWM backends (mock and      *)
(* RPi.GPIO), LedController, DeviceRegistry, and the threads that call     *)
(* them.  Every `with lock:` block of the source is split into the steps   *)
(* that another thread could observe if the lock were missing.             *)
(*                                                                         *)
(* Brightness is a float in the source.  Here the value v stands for the   *)
(* float v / Scale, so 1.0 is Scale and the duty cycle brightness * 100    *)
(* is v * 100 in units of 1/Scale percent.  NaN is the float not-a-number, *)
(* which float(brightness) accepts and passes on.                          *)
(***************************************************************************)
EXTENDS Integers, Sequences, FiniteSets, TLC

\* ---------------------------------------------------------------- bounds
Scale == 2
MaxOps == 3
MaxActs == 3
MaxPar == 2
MaxUpdates == 2

\* ------------------------------------------------------------- universes
Threads == {"t1", "t2"}
Ctl == {"m1", "r1"}
Ids == {"x", "y"}
Free == "free"
NoCtl == "none"

\* MockPwmOutput for m1, RpiPwmOutput for r1 (create_pwm_output).
Backend(c) == IF c = "r1" THEN "rpi" ELSE "mock"

\* ----------------------------------------------------------------- floats
NaN == -1000

FLt(a, b) == a # NaN /\ b # NaN /\ a < b
FGt(a, b) == a # NaN /\ b # NaN /\ a > b
FLe(a, b) == a # NaN /\ b # NaN /\ a <= b
FEq(a, b) == a # NaN /\ b # NaN /\ a = b
FMul100(a) == IF a = NaN THEN NaN ELSE a * 100

\* The brightness arguments a caller may pass: the grid over [-1, 2], and NaN.
BGrid == ((0 - Scale) .. (2 * Scale)) \cup {NaN}
\* The arguments used when several threads run: one value of each kind.
BFew == {0, 1, NaN}

\* _clamp(value, low, high)
ClampNoUpper(value, low, high) ==
    IF FLt(value, low) THEN low ELSE value

_clamp(value, low, high) ==
    IF FLt(value, low) THEN low
    ELSE IF FGt(value, high) THEN high
    ELSE value

LedState(on, b) == [is_on |-> on, brightness |-> b]

VARIABLES
    reg,        \* DeviceRegistry._led_devices: sequence of [id, ctl], insertion order
    regLock,    \* DeviceRegistry._lock: its holder or Free
    ctlLock,    \* LedController._lock, per controller
    isOn,       \* LedController._is_on
    brightness, \* LedController._brightness
    pwmLock,    \* MockPwmOutput._lock / RpiPwmOutput._lock
    started,    \* MockPwmOutput.started / RpiPwmOutput._started
    duty,       \* MockPwmOutput.duty_cycle_percent / duty last given to the driver
    released,   \* RpiPwmOutput: gpio.cleanup(pin) has run
    calls,      \* per backend: the PwmOutput calls it received, <<method, caller>>
    pc,         \* per thread: position in the running operation
    op,         \* per thread: the operation it runs (or ran last)
    id,         \* per thread: device_id argument
    arg,        \* per thread: is_on (1/0) or brightness argument
    held,       \* per thread: the controller whose method it is in
    devices,    \* per thread: local list `devices` of DeviceRegistry.close
    ret,        \* per thread: LedState returned by the last controller call
    res,        \* per thread: "ok", "NotFound" or "none"
    listed,     \* per thread: result of list_devices
    call,       \* per thread: PwmOutput method being called
    darg,       \* per thread: duty_cycle_percent argument of the PWM call
    cont,       \* per thread: where the controller continues after the PWM call
    nops,       \* number of operations started
    created,    \* controllers constructed so far (LedController(pwm=...))
    everReg,    \* history: controllers ever registered
    drainedBy,  \* history: per controller, the thread whose close() drained it
    lastOp,     \* history: per controller, last completed set_power/set_brightness
    lastArg,    \* history: its argument
    lastRes,    \* history: the LedState it returned (initially the OFF state)
    pre,        \* history: per thread, the controller's state when it took the lock
    scenarios,  \* ScenarioRegistry._scenarios: sequence of [id, name, actions]
    scLock,     \* ScenarioRegistry._lock: its holder or Free
    sop,        \* per thread: scenario request it runs: upsert, get, list, trigger
    tpc,        \* per thread: position inside the scenario request
    tsid,       \* per thread: scenario_id argument of the request
    tsc,        \* per thread: `scenario.actions` of the scenario trigger fetched
    ti,         \* per thread: index of the action the for-loop of trigger is at
    executed,   \* per thread: local list `executed` of trigger
    http,       \* per thread: status of the response, "none" while running
    sout,       \* per thread: result of ScenarioRegistry.get (actions) / list
    dispatched, \* history: per thread, indexes of the actions trigger dispatched
    snap,       \* history: per thread, controller states when trigger fetched
    replaced,   \* history: per thread, what its last upsert replaced
    drv,        \* per rpi backend: the RPi.GPIO PWM object it drives
    failedCall, \* history: per controller, the last call a driver error ended
    hdr,        \* per thread: path and Authorization header of its request
    app,        \* create_app: "none" before it ran, then "up" or "failed"
    boot,       \* what create_app is given: settings.gpio_backend, registry
    settings,   \* what create_bot is given: telegram_bot_token, telegram_allowed_chat_ids
    application, \* create_bot: "none" before it ran, then "up" or "failed"
    ctx,        \* BotContext: allowed_chat_ids
    update,     \* the Telegram update the bot's handler works on
    hpc,        \* where that handler is: "idle", "handler", "api"
    apiLog,     \* history: the calls of NightlightApiClient, with the chat
    replies,    \* history: the texts of message.reply_text
    nupd        \* number of updates the bot has taken

vars == <<reg, regLock, ctlLock, isOn, brightness, pwmLock, started, duty,
          released, calls, pc, op, id, arg, held, devices, ret, res, listed,
          call, darg, cont, nops, created, everReg, drainedBy, lastOp, lastArg, lastRes, pre,
          scenarios, scLock, sop, tpc, tsid, tsc, ti, executed, http, sout, dispatched,
          snap, replaced, drv, failedCall, hdr, app, boot,
          settings, application, ctx, update, hpc, apiLog, replies, nupd>>

regVars == <<reg, regLock, everReg, drainedBy>>
ctlVars == <<ctlLock, isOn, brightness>>
pwmVars == <<pwmLock, started, duty, released, calls>>
histVars == <<lastOp, lastArg, lastRes>>
argVars == <<op, id, arg, nops, created>>
scenVars == <<scenarios, scLock, sop, tpc, tsid, tsc, ti, executed, http, sout, dispatched,
              snap, replaced>>
botVars == <<settings, application, ctx, update, hpc, apiLog, replies, nupd>>
envVars == <<failedCall, hdr, app, boot, botVars>>
serviceVars == <<regVars, ctlVars, pwmVars, histVars, argVars, scenVars, drv,
                 failedCall, hdr, app, boot, pc, held, devices, ret, pre, res,
                 listed, call, darg, cont>>

\* No request (no path, no Authorization header); no failed call.
NoHeader == [path |-> "", scheme |-> "", credentials |-> ""]
NoFailure == [op |-> "none", arg |-> 0, pre |-> LedState(FALSE, 0), n |-> 0 - 1]

\* ------------------------------------------------------------------ Init
\* DeviceRegistry() is empty; build_registry registers one LedDevice on a
\* fresh LedController (is_on False, brightness 0.0) over a fresh backend.
InitReg == {<<>>} \cup {<<[id |-> i, ctl |-> c]>> : i \in Ids, c \in Ctl}

InitDevices ==
    /\ reg \in InitReg
    /\ regLock = Free
    /\ ctlLock = [c \in Ctl |-> Free]
    /\ isOn = [c \in Ctl |-> FALSE]
    /\ brightness = [c \in Ctl |-> 0]
    /\ pwmLock = [c \in Ctl |-> Free]
    /\ started = [c \in Ctl |-> FALSE]
    /\ duty = [c \in Ctl |-> 0]
    /\ released = [c \in Ctl |-> FALSE]
    /\ calls = [c \in Ctl |-> <<>>]
    /\ pc = [t \in Threads |-> "idle"]
    /\ op = [t \in Threads |-> "none"]
    /\ id = [t \in Threads |-> "x"]
    /\ arg = [t \in Threads |-> 0]
    /\ held = [t \in Threads |-> NoCtl]
    /\ devices = [t \in Threads |-> <<>>]
    /\ ret = [t \in Threads |-> LedState(FALSE, 0)]
    /\ res = [t \in Threads |-> "none"]
    /\ listed = [t \in Threads |-> <<>>]
    /\ call = [t \in Threads |-> "none"]
    /\ darg = [t \in Threads |-> 0]
    /\ cont = [t \in Threads |-> "idle"]
    /\ nops = 0
    /\ created = {reg[i].ctl : i \in DOMAIN reg}
    /\ everReg = {reg[i].ctl : i \in DOMAIN reg}
    /\ drainedBy = [c \in Ctl |-> "none"]
    /\ lastOp = [c \in Ctl |-> "none"]
    /\ lastArg = [c \in Ctl |-> 0]
    /\ lastRes = [c \in Ctl |-> LedState(FALSE, 0)]
    /\ pre = [t \in Threads |-> LedState(FALSE, 0)]
    /\ drv = [c \in Ctl |-> [running |-> FALSE, last |-> "none", misuse |-> FALSE]]
    /\ failedCall = [c \in Ctl |-> NoFailure]

\* create_app has returned the application: it was given the registry, under
\* the default settings (gpio_backend "mock", which it then does not read).
AppUp ==
    /\ app = "up"
    /\ boot = [gpio_backend |-> "mock", registry |-> TRUE]

\* An update without chat and message; the bot process has not been started.
NoUpdate == [chat |-> <<>>, message |-> FALSE, cmd |-> "start", args |-> <<>>]
NoBot ==
    /\ settings = [telegram_bot_token |-> "", telegram_allowed_chat_ids |-> <<>>]
    /\ application = "none"
    /\ ctx = [allowed_chat_ids |-> {}]
    /\ update = NoUpdate
    /\ hpc = "idle"
    /\ apiLog = <<>>
    /\ replies = <<>>
    /\ nupd = 0

\* The per-request locals of the scenario routes, before any request.
RequestLocals ==
    /\ sop = [t \in Threads |-> "none"]
    /\ tpc = [t \in Threads |-> "none"]
    /\ tsid = [t \in Threads |-> "s"]
    /\ tsc = [t \in Threads |-> <<>>]
    /\ ti = [t \in Threads |-> 1]
    /\ executed = [t \in Threads |-> <<>>]
    /\ http = [t \in Threads |-> "none"]
    /\ sout = [t \in Threads |-> <<>>]
    /\ dispatched = [t \in Threads |-> <<>>]
    /\ snap = [t \in Threads |-> [c \in Ctl |-> LedState(FALSE, 0)]]
    /\ replaced = [t \in Threads |-> <<>>]
    /\ hdr = [t \in Threads |-> NoHeader]

\* The service without the Telegram bot.
InitRequests == RequestLocals /\ NoBot

\* ScenarioRegistry() is empty.
Init ==
    /\ InitDevices
    /\ AppUp
    /\ scenarios = <<>>
    /\ scLock = Free
    /\ InitRequests

\* ------------------------------------------------------- dict operations
HasId(r, i) == \E k \in DOMAIN r : r[k].id = i

LookupFirst(r, i) == IF r = <<>> THEN NoCtl ELSE r[1].ctl

\* dict.get(device_id): the controller stored under the id, or None.
Lookup(r, i) ==
    IF HasId(r, i) THEN r[CHOOSE k \in DOMAIN r : r[k].id = i].ctl ELSE NoCtl

PutAppend(r, i, c) == Append(r, [id |-> i, ctl |-> c])

\* d[device_id] = device: an existing key keeps its position, a new one is appended.
Put(r, i, c) ==
    IF HasId(r, i)
    THEN [k \in DOMAIN r |-> IF r[k].id = i THEN [id |-> i, ctl |-> c] ELSE r[k]]
    ELSE Append(r, [id |-> i, ctl |-> c])

InfosFirst(r) == [k \in DOMAIN r \cap {1} |-> [device_id |-> r[k].id, device_type |-> "led"]]

\* [d.info() for d in values()]: DeviceInfo(device_id, "led") in insertion order.
Infos(r) == [k \in DOMAIN r |-> [device_id |-> r[k].id, device_type |-> "led"]]

ValuesEverRegistered(r) ==
    [k \in DOMAIN r |-> r[k].ctl] \o
    (IF (everReg \ {r[k].ctl : k \in DOMAIN r}) = {} THEN <<>>
     ELSE <<CHOOSE c \in everReg \ {r[k].ctl : k \in DOMAIN r} : TRUE>>)

\* list(values()): the LedDevice objects (named by their controller) in order.
Values(r) == [k \in DOMAIN r |-> r[k].ctl]

CtlOps == {"state", "set_power", "set_brightness"}

\* ------------------------------------------------ a caller starts a call
\* One inbound request: register_led(LedDevice(i, c)) on a newly constructed
\* controller, list_devices(), get_led(i) followed by one controller
\* method, or DeviceRegistry.close().  b ranges over B, the brightness inputs.
Start(t, B) ==
    /\ pc[t] = "idle"
    /\ app = "up"
    /\ nops < MaxOps
    /\ nops' = nops + 1
    /\ \/ \E i \in Ids, c \in Ctl \ created :
            /\ op' = [op EXCEPT ![t] = "register"]
            /\ id' = [id EXCEPT ![t] = i]
            /\ held' = [held EXCEPT ![t] = c]
            /\ created' = created \cup {c}
            /\ arg' = [arg EXCEPT ![t] = 0]
       \/ \E o \in {"list", "close"} :
            /\ op' = [op EXCEPT ![t] = o]
            /\ id' = [id EXCEPT ![t] = "x"]
            /\ held' = [held EXCEPT ![t] = NoCtl]
            /\ arg' = [arg EXCEPT ![t] = 0]
            /\ created' = created
       \/ \E i \in Ids, o \in CtlOps :
            /\ op' = [op EXCEPT ![t] = o]
            /\ id' = [id EXCEPT ![t] = i]
            /\ held' = [held EXCEPT ![t] = NoCtl]
            /\ created' = created
            /\ \E a \in (CASE o = "set_power" -> {0, 1}
                            [] o = "set_brightness" -> B
                            [] OTHER -> {0}) :
                   arg' = [arg EXCEPT ![t] = a]
    /\ pc' = [pc EXCEPT ![t] = "reg_lock"]
    /\ res' = [res EXCEPT ![t] = "none"]
    /\ devices' = [devices EXCEPT ![t] = <<>>]
    /\ listed' = [listed EXCEPT ![t] = <<>>]
    /\ UNCHANGED <<reg, regLock, everReg, drainedBy, ctlVars, pwmVars, histVars,
                   ret, pre, call, darg, cont>>
    /\ UNCHANGED scenVars
    /\ UNCHANGED <<drv, envVars>>

\* -------------------------------------------------------- DeviceRegistry
\* `with self._lock:` of register_led, list_devices, get_led and close.
RegAcquire(t) ==
    /\ pc[t] = "reg_lock"
    /\ regLock = Free
    /\ regLock' = t
    /\ pc' = [pc EXCEPT ![t] = "reg_body"]
    /\ UNCHANGED <<reg, everReg, drainedBy, ctlVars, pwmVars, histVars, argVars,
                   held, devices, ret, pre, res, listed, call, darg, cont>>
    /\ UNCHANGED scenVars
    /\ UNCHANGED <<drv, envVars>>

\* register_led: insert or replace under the lock, then release it.
RegisterLed(t) ==
    /\ pc[t] = "reg_body" /\ op[t] = "register"
    /\ reg' = Put(reg, id[t], held[t])
    /\ everReg' = everReg \cup {held[t]}
    /\ regLock' = Free
    /\ res' = [res EXCEPT ![t] = "ok"]
    /\ pc' = [pc EXCEPT ![t] = "idle"]
    /\ UNCHANGED <<drainedBy, ctlVars, pwmVars, histVars, argVars,
                   held, devices, ret, pre, listed, call, darg, cont>>
    /\ UNCHANGED scenVars
    /\ UNCHANGED <<drv, envVars>>

\* list_devices: build the DeviceInfo list under the lock, then release it.
ListDevices(t) ==
    /\ pc[t] = "reg_body" /\ op[t] = "list"
    /\ listed' = [listed EXCEPT ![t] = Infos(reg)]
    /\ regLock' = Free
    /\ res' = [res EXCEPT ![t] = "ok"]
    /\ pc' = [pc EXCEPT ![t] = "idle"]
    /\ UNCHANGED <<reg, everReg, drainedBy, ctlVars, pwmVars, histVars, argVars,
                   held, devices, ret, pre, call, darg, cont>>
    /\ UNCHANGED scenVars
    /\ UNCHANGED <<drv, envVars>>

\* get_led: KeyError for an absent id, else the device; the lock is released
\* on both ways out, and the caller goes on to the controller method.
GetLed(t) ==
    /\ pc[t] = "reg_body" /\ op[t] \in CtlOps
    /\ regLock' = Free
    /\ IF Lookup(reg, id[t]) = NoCtl
       THEN /\ res' = [res EXCEPT ![t] = "NotFound"]
            /\ pc' = [pc EXCEPT ![t] = "idle"]
            /\ held' = held
       ELSE /\ held' = [held EXCEPT ![t] = Lookup(reg, id[t])]
            /\ pc' = [pc EXCEPT ![t] = "ctl_lock"]
            /\ res' = res
    /\ UNCHANGED <<reg, everReg, drainedBy, ctlVars, pwmVars, histVars, argVars,
                   devices, ret, pre, listed, call, darg, cont>>
    /\ UNCHANGED scenVars
    /\ UNCHANGED <<drv, envVars>>

\* close, first part: copy the values, clear the dict, release the lock.
CloseDrainKeepsEntries(t) ==
    /\ pc[t] = "reg_body" /\ op[t] = "close"
    /\ devices' = [devices EXCEPT ![t] = Values(reg)]
    /\ reg' = reg
    /\ drainedBy' = [c \in Ctl |->
                        IF \E k \in DOMAIN reg : reg[k].ctl = c THEN t
                        ELSE drainedBy[c]]
    /\ regLock' = Free
    /\ pc' = [pc EXCEPT ![t] = "close_loop"]
    /\ UNCHANGED <<everReg, ctlVars, pwmVars, histVars, argVars,
                   held, ret, pre, res, listed, call, darg, cont>>
    /\ UNCHANGED scenVars
    /\ UNCHANGED <<drv, envVars>>

CloseDrainKeepLock(t) ==
    /\ pc[t] = "reg_body" /\ op[t] = "close"
    /\ devices' = [devices EXCEPT ![t] = Values(reg)]
    /\ reg' = <<>>
    /\ drainedBy' = [c \in Ctl |->
                        IF \E k \in DOMAIN reg : reg[k].ctl = c THEN t
                        ELSE drainedBy[c]]
    /\ regLock' = regLock
    /\ pc' = [pc EXCEPT ![t] = "close_loop"]
    /\ UNCHANGED <<everReg, ctlVars, pwmVars, histVars, argVars,
                   held, ret, pre, res, listed, call, darg, cont>>
    /\ UNCHANGED scenVars
    /\ UNCHANGED <<drv, envVars>>

CloseDrain(t) ==
    /\ pc[t] = "reg_body" /\ op[t] = "close"
    /\ devices' = [devices EXCEPT ![t] = Values(reg)]
    /\ reg' = <<>>
    /\ drainedBy' = [c \in Ctl |->
                        IF \E k \in DOMAIN reg : reg[k].ctl = c THEN t
                        ELSE drainedBy[c]]
    /\ regLock' = Free
    /\ pc' = [pc EXCEPT ![t] = "close_loop"]
    /\ UNCHANGED <<everReg, ctlVars, pwmVars, histVars, argVars,
                   held, ret, pre, res, listed, call, darg, cont>>
    /\ UNCHANGED scenVars
    /\ UNCHANGED <<drv, envVars>>

\* close, second part: `for device in devices: device.close()`, outside the lock.
CloseLoop(t) ==
    /\ pc[t] = "close_loop"
    /\ IF devices[t] = <<>>
       THEN /\ pc' = [pc EXCEPT ![t] = "idle"]
            /\ res' = [res EXCEPT ![t] = "ok"]
            /\ UNCHANGED <<held, devices>>
       ELSE /\ held' = [held EXCEPT ![t] = Head(devices[t])]
            /\ devices' = [devices EXCEPT ![t] = Tail(devices[t])]
            /\ pc' = [pc EXCEPT ![t] = "ctl_lock"]
            /\ res' = res
    /\ UNCHANGED <<regVars, ctlVars, pwmVars, histVars, argVars,
                   ret, pre, listed, call, darg, cont>>
    /\ UNCHANGED scenVars
    /\ UNCHANGED <<drv, envVars>>

\* --------------------------------------------------------- LedController
\* The controller goes on to a PwmOutput method and comes back at `k`.
CallPwm(t, m, d, k) ==
    /\ call' = [call EXCEPT ![t] = m]
    /\ darg' = [darg EXCEPT ![t] = d]
    /\ cont' = [cont EXCEPT ![t] = k]
    /\ pc' = [pc EXCEPT ![t] = "pwm_enter"]

BodyOf(o) ==
    CASE o = "state" -> "state_body"
      [] o = "set_power" -> "sp_body"
      [] o = "set_brightness" -> "sb_body"
      [] OTHER -> "cl_body"

\* `with self._lock:` of state, set_power, set_brightness and close.
CtlAcquireNoExclusion(t) ==
    /\ pc[t] = "ctl_lock"
    /\ ctlLock' = [ctlLock EXCEPT ![held[t]] = t]
    /\ pre' = [pre EXCEPT ![t] = LedState(isOn[held[t]], brightness[held[t]])]
    /\ pc' = [pc EXCEPT ![t] = BodyOf(op[t])]
    /\ UNCHANGED <<regVars, isOn, brightness, pwmVars, histVars, argVars,
                   held, devices, ret, res, listed, call, darg, cont>>
    /\ UNCHANGED scenVars
    /\ UNCHANGED <<drv, envVars>>

CtlAcquireShared(t) ==
    /\ pc[t] = "ctl_lock"
    /\ \A c \in Ctl : ctlLock[c] = Free
    /\ ctlLock' = [ctlLock EXCEPT ![held[t]] = t]
    /\ pre' = [pre EXCEPT ![t] = LedState(isOn[held[t]], brightness[held[t]])]
    /\ pc' = [pc EXCEPT ![t] = BodyOf(op[t])]
    /\ UNCHANGED <<regVars, isOn, brightness, pwmVars, histVars, argVars,
                   held, devices, ret, res, listed, call, darg, cont>>
    /\ UNCHANGED scenVars
    /\ UNCHANGED <<drv, envVars>>

CtlAcquire(t) ==
    /\ pc[t] = "ctl_lock"
    /\ ctlLock[held[t]] = Free
    /\ ctlLock' = [ctlLock EXCEPT ![held[t]] = t]
    /\ pre' = [pre EXCEPT ![t] = LedState(isOn[held[t]], brightness[held[t]])]
    /\ pc' = [pc EXCEPT ![t] = BodyOf(op[t])]
    /\ UNCHANGED <<regVars, isOn, brightness, pwmVars, histVars, argVars,
                   held, devices, ret, res, listed, call, darg, cont>>
    /\ UNCHANGED scenVars
    /\ UNCHANGED <<drv, envVars>>

\* state(): LedState(is_on=self._is_on, brightness=self._brightness), lock released.
State(t) ==
    /\ pc[t] = "state_body"
    /\ ret' = [ret EXCEPT ![t] = LedState(isOn[held[t]], brightness[held[t]])]
    /\ ctlLock' = [ctlLock EXCEPT ![held[t]] = Free]
    /\ res' = [res EXCEPT ![t] = "ok"]
    /\ pc' = [pc EXCEPT ![t] = "idle"]
    /\ UNCHANGED <<pre, regVars, isOn, brightness, pwmVars, histVars, argVars,
                   held, devices, listed, call, darg, cont>>
    /\ UNCHANGED scenVars
    /\ UNCHANGED <<drv, envVars>>

\* What set_power(True) leaves in _brightness before it calls _apply.
PowerOnKeepsBrightness(b) == b

PowerOnBrightness(b) == IF FLe(b, 0) THEN Scale ELSE b

\* set_power up to the backend call: is_on defaults the brightness to 1.0 when
\* it is <= 0 and calls _apply (duty = brightness * 100); otherwise pwm.stop().
SetPowerBegin(t) ==
    /\ pc[t] = "sp_body"
    /\ LET c == held[t] IN
       IF arg[t] = 1
       THEN /\ brightness' = [brightness EXCEPT ![c] = PowerOnBrightness(brightness[c])]
            /\ CallPwm(t, "change", FMul100(PowerOnBrightness(brightness[c])), "sp_on_ret")
       ELSE /\ brightness' = brightness
            /\ CallPwm(t, "stop", 0, "sp_off_ret")
    /\ UNCHANGED <<regVars, ctlLock, isOn, pwmVars, histVars, argVars,
                   held, devices, ret, pre, res, listed>>
    /\ UNCHANGED scenVars
    /\ UNCHANGED <<drv, envVars>>

SetPowerEndRemembers(t) ==
    /\ pc[t] \in {"sp_on_ret", "sp_off_ret"}
    /\ LET c == held[t]
           on == (pc[t] = "sp_on_ret")
           b == brightness[c]
       IN /\ isOn' = [isOn EXCEPT ![c] = on]
          /\ brightness' = [brightness EXCEPT ![c] = b]
          /\ ret' = [ret EXCEPT ![t] = LedState(on, b)]
          /\ lastRes' = [lastRes EXCEPT ![c] = LedState(on, b)]
          /\ lastOp' = [lastOp EXCEPT ![c] = "set_power"]
          /\ lastArg' = [lastArg EXCEPT ![c] = arg[t]]
          /\ ctlLock' = [ctlLock EXCEPT ![c] = Free]
    /\ res' = [res EXCEPT ![t] = "ok"]
    /\ pc' = [pc EXCEPT ![t] = "idle"]
    /\ UNCHANGED <<pre, regVars, pwmVars, argVars, held, devices, listed, call, darg, cont>>
    /\ UNCHANGED scenVars
    /\ UNCHANGED <<drv, envVars>>

\* set_power after the backend call: set the flag (and zero the brightness when
\* switching off), return the LedState, release the lock.
SetPowerEnd(t) ==
    /\ pc[t] \in {"sp_on_ret", "sp_off_ret"}
    /\ LET c == held[t]
           on == (pc[t] = "sp_on_ret")
           b == IF on THEN brightness[c] ELSE 0
       IN /\ isOn' = [isOn EXCEPT ![c] = on]
          /\ brightness' = [brightness EXCEPT ![c] = b]
          /\ ret' = [ret EXCEPT ![t] = LedState(on, b)]
          /\ lastRes' = [lastRes EXCEPT ![c] = LedState(on, b)]
          /\ lastOp' = [lastOp EXCEPT ![c] = "set_power"]
          /\ lastArg' = [lastArg EXCEPT ![c] = arg[t]]
          /\ ctlLock' = [ctlLock EXCEPT ![c] = Free]
    /\ res' = [res EXCEPT ![t] = "ok"]
    /\ pc' = [pc EXCEPT ![t] = "idle"]
    /\ UNCHANGED <<pre, regVars, pwmVars, argVars, held, devices, listed, call, darg, cont>>
    /\ UNCHANGED scenVars
    /\ UNCHANGED <<drv, envVars>>

\* set_brightness, first statement: _brightness = _clamp(float(brightness), 0.0, 1.0);
\* a value equal to 0.0 goes on to pwm.stop().
SetBrightnessBegin(t) ==
    /\ pc[t] = "sb_body"
    /\ LET c == held[t]
           b == _clamp(arg[t], 0, Scale)
       IN /\ brightness' = [brightness EXCEPT ![c] = b]
          /\ IF FEq(b, 0)
             THEN CallPwm(t, "stop", 0, "sb_off_ret")
             ELSE /\ pc' = [pc EXCEPT ![t] = "sb_on"]
                  /\ UNCHANGED <<call, darg, cont>>
    /\ UNCHANGED <<regVars, ctlLock, isOn, pwmVars, histVars, argVars,
                   held, devices, ret, pre, res, listed>>
    /\ UNCHANGED scenVars
    /\ UNCHANGED <<drv, envVars>>

\* set_brightness, non-zero branch: _is_on = True, then _apply().
SetBrightnessOn(t) ==
    /\ pc[t] = "sb_on"
    /\ isOn' = [isOn EXCEPT ![held[t]] = TRUE]
    /\ CallPwm(t, "change", FMul100(brightness[held[t]]), "sb_on_ret")
    /\ UNCHANGED <<regVars, ctlLock, brightness, pwmVars, histVars, argVars,
                   held, devices, ret, pre, res, listed>>
    /\ UNCHANGED scenVars
    /\ UNCHANGED <<drv, envVars>>

\* set_brightness after the backend call: the zero branch clears the flag and
\* returns LedState(False, 0.0), the other returns LedState(True, _brightness).
SetBrightnessEnd(t) ==
    /\ pc[t] \in {"sb_on_ret", "sb_off_ret"}
    /\ LET c == held[t]
           r == IF pc[t] = "sb_off_ret" THEN LedState(FALSE, 0)
                ELSE LedState(TRUE, brightness[c])
       IN /\ isOn' = IF pc[t] = "sb_off_ret" THEN [isOn EXCEPT ![c] = FALSE] ELSE isOn
          /\ ret' = [ret EXCEPT ![t] = r]
          /\ lastRes' = [lastRes EXCEPT ![c] = r]
          /\ lastOp' = [lastOp EXCEPT ![c] = "set_brightness"]
          /\ lastArg' = [lastArg EXCEPT ![c] = arg[t]]
          /\ ctlLock' = [ctlLock EXCEPT ![c] = Free]
    /\ res' = [res EXCEPT ![t] = "ok"]
    /\ pc' = [pc EXCEPT ![t] = "idle"]
    /\ UNCHANGED <<pre, regVars, brightness, pwmVars, argVars,
                   held, devices, listed, call, darg, cont>>
    /\ UNCHANGED scenVars
    /\ UNCHANGED <<drv, envVars>>

\* LedController.close (reached through LedDevice.close): pwm.stop(), then
\* pwm.close() in the finally clause, then the lock is released.
LedClose(t) ==
    /\ \/ /\ pc[t] = "cl_body"
          /\ CallPwm(t, "stop", 0, "cl_stop_ret")
          /\ ctlLock' = ctlLock
       \/ /\ pc[t] = "cl_stop_ret"
          /\ CallPwm(t, "close", 0, "cl_close_ret")
          /\ ctlLock' = ctlLock
       \/ /\ pc[t] = "cl_close_ret"
          /\ ctlLock' = [ctlLock EXCEPT ![held[t]] = Free]
          /\ pc' = [pc EXCEPT ![t] = "close_loop"]
          /\ UNCHANGED <<call, darg, cont>>
    /\ UNCHANGED <<regVars, isOn, brightness, pwmVars, histVars, argVars,
                   held, devices, ret, pre, res, listed>>
    /\ UNCHANGED scenVars
    /\ UNCHANGED <<drv, envVars>>

\* ------------------------------------------------------------- PwmOutput
\* MockPwmOutput.close is the only method that takes no lock.
TakesLock(c, m) == ~(Backend(c) = "mock" /\ m = "close")

\* Entry of a backend method: `with self._lock:` on a threading.Lock, which is
\* not reentrant.  "pwm_nested" is RpiPwmOutput.close calling self.stop()
\* while it holds the lock.
PwmEnter(t) ==
    /\ pc[t] \in {"pwm_enter", "pwm_nested"}
    /\ LET c == held[t] IN
       /\ TakesLock(c, call[t]) => pwmLock[c] = Free
       /\ pwmLock' = IF TakesLock(c, call[t]) THEN [pwmLock EXCEPT ![c] = t]
                     ELSE pwmLock
       /\ calls' = IF pc[t] = "pwm_enter"
                   THEN [calls EXCEPT ![c] = Append(@, <<call[t], op[t]>>)]
                   ELSE calls
    /\ pc' = [pc EXCEPT ![t] = IF pc[t] = "pwm_enter" THEN "pwm_body"
                               ELSE "pwm_nested_body"]
    /\ UNCHANGED <<regVars, ctlVars, started, duty, released, histVars, argVars,
                   held, devices, ret, pre, res, listed, call, darg, cont>>
    /\ UNCHANGED scenVars
    /\ UNCHANGED <<drv, envVars>>

\* The backend method returns to the controller; its frame is gone.
Return(t) ==
    /\ pc' = [pc EXCEPT ![t] = cont[t]]
    /\ call' = [call EXCEPT ![t] = "none"]
    /\ darg' = [darg EXCEPT ![t] = 0]
    /\ cont' = [cont EXCEPT ![t] = "idle"]

MockCallStopKeepsDuty(t) ==
    /\ pc[t] = "pwm_body"
    /\ Backend(held[t]) = "mock"
    /\ LET c == held[t] IN
       CASE call[t] = "change" ->
              /\ started' = [started EXCEPT ![c] = TRUE]
              /\ duty' = [duty EXCEPT ![c] = darg[t]]
              /\ pwmLock' = [pwmLock EXCEPT ![c] = Free]
         [] call[t] = "stop" ->
              /\ started' = [started EXCEPT ![c] = FALSE]
              /\ duty' = duty
              /\ pwmLock' = [pwmLock EXCEPT ![c] = Free]
         [] OTHER ->
              UNCHANGED <<started, duty, pwmLock>>
    /\ Return(t)
    /\ UNCHANGED <<regVars, ctlVars, released, calls, histVars, argVars,
                   held, devices, ret, pre, res, listed>>
    /\ UNCHANGED scenVars
    /\ UNCHANGED <<drv, envVars>>

\* MockPwmOutput.change_duty_cycle / stop / close.
MockCall(t) ==
    /\ pc[t] = "pwm_body"
    /\ Backend(held[t]) = "mock"
    /\ LET c == held[t] IN
       CASE call[t] = "change" ->
              /\ started' = [started EXCEPT ![c] = TRUE]
              /\ duty' = [duty EXCEPT ![c] = darg[t]]
              /\ pwmLock' = [pwmLock EXCEPT ![c] = Free]
         [] call[t] = "stop" ->
              /\ started' = [started EXCEPT ![c] = FALSE]
              /\ duty' = [duty EXCEPT ![c] = 0]
              /\ pwmLock' = [pwmLock EXCEPT ![c] = Free]
         [] OTHER ->
              UNCHANGED <<started, duty, pwmLock>>
    /\ Return(t)
    /\ UNCHANGED <<regVars, ctlVars, released, calls, histVars, argVars,
                   held, devices, ret, pre, res, listed>>
    /\ UNCHANGED scenVars
    /\ UNCHANGED <<drv, envVars>>

DriverCallNoAutoStart(s) == "ChangeDutyCycle"

\* The driver call of change_duty_cycle: start() when `not self._started`,
\* else ChangeDutyCycle().
DriverCall(s) == IF s THEN "ChangeDutyCycle" ELSE "start"

\* The RPi.GPIO PWM object d after the call m: start makes it run, stop ends
\* that, ChangeDutyCycle on an object that does not run is a misuse.
Drive(d, m) ==
    CASE m = "start" -> [running |-> TRUE, last |-> m, misuse |-> d.misuse]
      [] m = "ChangeDutyCycle" ->
             [running |-> d.running, last |-> m, misuse |-> d.misuse \/ ~d.running]
      [] m = "stop" -> [running |-> FALSE, last |-> m, misuse |-> d.misuse]
      [] OTHER -> d

\* RpiPwmOutput.change_duty_cycle / stop / close.  change_duty_cycle starts the
\* driver PWM when it is not started; stop() calls the driver only when started;
\* close() holds the lock and calls self.stop(), and after it gpio.cleanup(pin).
RpiCall(t) ==
    /\ pc[t] \in {"pwm_body", "pwm_nested_body"}
    /\ Backend(held[t]) = "rpi"
    /\ LET c == held[t] IN
       CASE pc[t] = "pwm_body" /\ call[t] = "change" ->
              /\ drv' = [drv EXCEPT ![c] = Drive(@, DriverCall(started[c]))]
              /\ started' = [started EXCEPT ![c] = TRUE]
              /\ duty' = [duty EXCEPT ![c] = darg[t]]
              /\ pwmLock' = [pwmLock EXCEPT ![c] = Free]
              /\ Return(t)
              /\ released' = released
         [] pc[t] = "pwm_body" /\ call[t] = "stop" ->
              /\ drv' = [drv EXCEPT ![c] = IF started[c] THEN Drive(@, "stop") ELSE @]
              /\ started' = [started EXCEPT ![c] = FALSE]
              /\ pwmLock' = [pwmLock EXCEPT ![c] = Free]
              /\ Return(t)
              /\ UNCHANGED <<duty, released>>
         [] pc[t] = "pwm_body" /\ call[t] = "close" ->
              /\ pc' = [pc EXCEPT ![t] = "pwm_nested"]
              /\ UNCHANGED <<started, duty, pwmLock, released, call, darg, cont, drv>>
         [] OTHER ->
              /\ drv' = [drv EXCEPT ![c] = IF started[c] THEN Drive(@, "stop") ELSE @]
              /\ started' = [started EXCEPT ![c] = FALSE]
              /\ released' = [released EXCEPT ![c] = TRUE]
              /\ pwmLock' = [pwmLock EXCEPT ![c] = Free]
              /\ Return(t)
              /\ duty' = duty
    /\ UNCHANGED <<regVars, ctlVars, calls, histVars, argVars,
                   held, devices, ret, pre, res, listed>>
    /\ UNCHANGED scenVars
    /\ UNCHANGED envVars

\* A driver call of the RPi.GPIO PWM object that never returns.
DriverHang(t) ==
    /\ pc[t] = "pwm_body"
    /\ Backend(held[t]) = "rpi"
    /\ call[t] = "change" \/ (call[t] = "stop" /\ started[held[t]])
    /\ pc' = [pc EXCEPT ![t] = "hung"]
    /\ UNCHANGED <<regVars, ctlVars, pwmVars, histVars, argVars,
                   held, devices, ret, pre, res, listed, call, darg, cont>>
    /\ UNCHANGED scenVars
    /\ UNCHANGED <<drv, envVars>>

\* A driver call of the RPi.GPIO PWM object raises: the statements after it in
\* the backend method are not run (_started keeps its value), `with self._lock`
\* releases the backend lock, and the exception goes up to the controller.
DriverRaise(t) ==
    /\ pc[t] = "pwm_body"
    /\ Backend(held[t]) = "rpi"
    /\ call[t] = "change" \/ (call[t] = "stop" /\ started[held[t]])
    /\ pwmLock' = [pwmLock EXCEPT ![held[t]] = Free]
    /\ pc' = [pc EXCEPT ![t] = "raised"]
    /\ call' = [call EXCEPT ![t] = "none"]
    /\ darg' = [darg EXCEPT ![t] = 0]
    /\ UNCHANGED <<regVars, ctlVars, started, duty, released, calls, histVars, argVars,
                   held, devices, ret, pre, res, listed, cont>>
    /\ UNCHANGED scenVars
    /\ UNCHANGED <<drv, envVars>>

CtlRaiseRollsBack(t) ==
    /\ pc[t] = "raised"
    /\ LET c == held[t] IN
       IF cont[t] = "cl_stop_ret"
       THEN /\ CallPwm(t, "close", 0, "cl_close_raised")
            /\ UNCHANGED <<isOn, brightness, ctlLock, failedCall, res>>
       ELSE /\ ctlLock' = [ctlLock EXCEPT ![c] = Free]
            /\ failedCall' = [failedCall EXCEPT ![c] =
                                 [op |-> op[t], arg |-> arg[t], pre |-> pre[t],
                                  n |-> Len(calls[c])]]
            /\ res' = [res EXCEPT ![t] = "error"]
            /\ pc' = [pc EXCEPT ![t] = "idle"]
            /\ cont' = [cont EXCEPT ![t] = "idle"]
            /\ UNCHANGED <<call, darg>>
            /\ isOn' = [isOn EXCEPT ![c] = pre[t].is_on]
            /\ brightness' = [brightness EXCEPT ![c] = pre[t].brightness]
    /\ UNCHANGED <<regVars, pwmVars, histVars, argVars, held, devices, ret, pre, listed>>
    /\ UNCHANGED scenVars
    /\ UNCHANGED <<drv, hdr, app, boot, botVars>>

\* The exception of a backend call inside the controller.  In set_power and
\* set_brightness nothing catches it: the statements after the call are not
\* run, `with self._lock` releases the controller lock and the caller gets the
\* error.  In close() it left pwm.stop(): the finally clause calls pwm.close()
\* before the exception would go on (only the hardware backend raises, and its
\* close() does not return).
CtlRaise(t) ==
    /\ pc[t] = "raised"
    /\ LET c == held[t] IN
       IF cont[t] = "cl_stop_ret"
       THEN /\ CallPwm(t, "close", 0, "cl_close_raised")
            /\ UNCHANGED <<isOn, brightness, ctlLock, failedCall, res>>
       ELSE /\ ctlLock' = [ctlLock EXCEPT ![c] = Free]
            /\ failedCall' = [failedCall EXCEPT ![c] =
                                 [op |-> op[t], arg |-> arg[t], pre |-> pre[t],
                                  n |-> Len(calls[c])]]
            /\ res' = [res EXCEPT ![t] = "error"]
            /\ pc' = [pc EXCEPT ![t] = "idle"]
            /\ cont' = [cont EXCEPT ![t] = "idle"]
            /\ UNCHANGED <<call, darg>>
            /\ UNCHANGED <<isOn, brightness>>
    /\ UNCHANGED <<regVars, pwmVars, histVars, argVars, held, devices, ret, pre, listed>>
    /\ UNCHANGED scenVars
    /\ UNCHANGED <<drv, hdr, app, boot, botVars>>

\* ------------------------------------------------------ ScenarioRegistry
\* The strings the requests and the action dicts are made of, and str.strip()
\* on them.
Strip(s) ==
    CASE s = " x " -> "x"
      [] s = "  " -> ""
      [] s = " set_power " -> "set_power"
      [] s = " s " -> "s"
      [] s = " Mock " -> "Mock"
      [] OTHER -> s

\* action_dict.get(key, default)
Get(a, k, d) == IF k \in DOMAIN a THEN a[k] ELSE d

\* Action dicts a client may store: well-formed ones, ones with blanks around
\* the strings, with fields left out, of an unknown type, for a device that is
\* never registered ("zz").
Pool ==
    { [type |-> "set_power", device_id |-> "x", is_on |-> TRUE],
      [type |-> "set_brightness", device_id |-> "x", brightness |-> 1],
      [type |-> "noop", device_id |-> ""],
      [type |-> "noop", device_id |-> "zz"],
      [type |-> "set_power", device_id |-> "zz", is_on |-> TRUE],
      [type |-> " set_power ", device_id |-> " x "],
      [type |-> "set_brightness", device_id |-> "x"],
      [type |-> "set_power", is_on |-> TRUE],
      [type |-> "set_brightness", device_id |-> "  ", brightness |-> 1] }

\* The actions of the scenarios that run concurrently: all on device "x".
Pool2 ==
    { [type |-> "set_power", device_id |-> "x", is_on |-> FALSE],
      [type |-> "set_power", device_id |-> "x", is_on |-> TRUE],
      [type |-> "set_brightness", device_id |-> "x", brightness |-> 1] }

RECURSIVE ListsUpTo(_, _)
ListsUpTo(S, n) ==
    IF n = 0 THEN {<<>>}
    ELSE LET R == ListsUpTo(S, n - 1) IN
         R \cup {Append(l, a) : l \in {r \in R : Len(r) = n - 1}, a \in S}

\* The payloads of upsert_scenario: nothing, [A], [B] and [A, B].
UpsertLists ==
    LET A == [type |-> "set_power", device_id |-> "x", is_on |-> TRUE]
        B == [type |-> "set_brightness", device_id |-> "x", brightness |-> 1]
    IN  {<<>>, <<A>>, <<B>>, <<A, B>>}

Names == {"n1", "n2"}
\* The scenario_id path parameters a client sends: two plain ids, and one with
\* blanks around it (as %20 in the URL).
RawScIds == {"s", "q", " s "}

Scenario(i, n, as) == [id |-> i, name |-> n, actions |-> as]

\* dict operations on _scenarios
ScHas(r, i) == \E k \in DOMAIN r : r[k].id = i

ScLookup(r, i) == r[CHOOSE k \in DOMAIN r : r[k].id = i]

ScPutMerge(r, sc) ==
    IF ScHas(r, sc.id)
    THEN [k \in DOMAIN r |->
             IF r[k].id = sc.id
             THEN Scenario(sc.id, sc.name, r[k].actions \o sc.actions)
             ELSE r[k]]
    ELSE Append(r, sc)

\* self._scenarios[scenario.scenario_id] = scenario
ScPut(r, sc) ==
    IF ScHas(r, sc.id)
    THEN [k \in DOMAIN r |-> IF r[k].id = sc.id THEN sc ELSE r[k]]
    ELSE Append(r, sc)

\* A request on the scenario registry arrives: upsert_scenario with a payload,
\* ScenarioRegistry.get, or list.
ScStart(t, L) ==
    /\ pc[t] = "idle" /\ tpc[t] \in {"none", "done"}
    /\ app = "up"
    /\ \/ \E i \in RawScIds, n \in Names, as \in L :
            /\ sop' = [sop EXCEPT ![t] = "upsert"]
            /\ tsid' = [tsid EXCEPT ![t] = i]
            /\ tsc' = [tsc EXCEPT ![t] = <<Scenario(Strip(i), n, as)>>]
       \/ \E i \in RawScIds :
            /\ sop' = [sop EXCEPT ![t] = "get"]
            /\ tsid' = [tsid EXCEPT ![t] = i]
            /\ tsc' = [tsc EXCEPT ![t] = <<>>]
       \/ /\ sop' = [sop EXCEPT ![t] = "list"]
          /\ tsid' = [tsid EXCEPT ![t] = "s"]
          /\ tsc' = [tsc EXCEPT ![t] = <<>>]
    /\ tpc' = [tpc EXCEPT ![t] = "sc_lock"]
    /\ http' = [http EXCEPT ![t] = "none"]
    /\ sout' = [sout EXCEPT ![t] = <<>>]
    /\ res' = [res EXCEPT ![t] = "none"]
    /\ UNCHANGED <<regVars, ctlVars, pwmVars, histVars, argVars, pc, held, devices,
                   ret, pre, listed, call, darg, cont, scenarios, scLock, ti,
                   executed, dispatched, snap, replaced>>
    /\ UNCHANGED <<drv, envVars>>

\* `with self._lock:` of ScenarioRegistry.list, upsert and get.
ScAcquire(t) ==
    /\ tpc[t] = "sc_lock"
    /\ scLock = Free
    /\ scLock' = t
    /\ tpc' = [tpc EXCEPT ![t] = "sc_body"]
    /\ UNCHANGED <<regVars, ctlVars, pwmVars, histVars, argVars, pc, held, devices,
                   ret, pre, res, listed, call, darg, cont, scenarios, sop, tsid,
                   tsc, ti, executed, http, sout, dispatched, snap, replaced>>
    /\ UNCHANGED <<drv, envVars>>

\* ScenarioRegistry.upsert, and the response of upsert_scenario.
ScenarioUpsert(t) ==
    /\ tpc[t] = "sc_body" /\ sop[t] = "upsert"
    /\ scenarios' = ScPut(scenarios, tsc[t][1])
    /\ replaced' = [replaced EXCEPT ![t] =
                       IF ScHas(scenarios, tsc[t][1].id)
                       THEN <<ScLookup(scenarios, tsc[t][1].id)>> ELSE <<>>]
    /\ scLock' = Free
    /\ http' = [http EXCEPT ![t] = "200"]
    /\ tpc' = [tpc EXCEPT ![t] = "done"]
    /\ UNCHANGED <<regVars, ctlVars, pwmVars, histVars, argVars, pc, held, devices,
                   ret, pre, res, listed, call, darg, cont, sop, tsid, tsc, ti,
                   executed, sout, dispatched, snap>>
    /\ UNCHANGED <<drv, envVars>>

\* ScenarioRegistry.get: the scenario, or KeyError.
ScenarioGet(t) ==
    /\ tpc[t] = "sc_body" /\ sop[t] \in {"get", "trigger"}
    /\ scLock' = Free
    /\ IF ScHas(scenarios, tsid[t])
       THEN /\ sout' = [sout EXCEPT ![t] = <<ScLookup(scenarios, tsid[t])>>]
            /\ res' = [res EXCEPT ![t] = "ok"]
       ELSE /\ sout' = [sout EXCEPT ![t] = <<>>]
            /\ res' = [res EXCEPT ![t] = "NotFound"]
    /\ tpc' = [tpc EXCEPT ![t] = IF sop[t] = "trigger" THEN "got" ELSE "done"]
    /\ UNCHANGED <<regVars, ctlVars, pwmVars, histVars, argVars, pc, held, devices,
                   ret, pre, listed, call, darg, cont, scenarios, sop, tsid, tsc,
                   ti, executed, http, dispatched, snap, replaced>>
    /\ UNCHANGED <<drv, envVars>>

\* ScenarioRegistry.list: list(self._scenarios.values())
ScenarioList(t) ==
    /\ tpc[t] = "sc_body" /\ sop[t] = "list"
    /\ scLock' = Free
    /\ sout' = [sout EXCEPT ![t] = scenarios]
    /\ res' = [res EXCEPT ![t] = "ok"]
    /\ tpc' = [tpc EXCEPT ![t] = "done"]
    /\ UNCHANGED <<regVars, ctlVars, pwmVars, histVars, argVars, pc, held, devices,
                   ret, pre, listed, call, darg, cont, scenarios, sop, tsid, tsc,
                   ti, executed, http, dispatched, snap, replaced>>
    /\ UNCHANGED <<drv, envVars>>

\* ------------------------------------------------------ trigger_scenario
Known == {"set_power", "set_brightness"}

\* str(action_dict.get("type", "")).strip()
ActionType(a) == Strip(Get(a, "type", ""))

\* str(action_dict.get("device_id", "")).strip()
ActionDevice(a) == Strip(Get(a, "device_id", ""))

ActionArgDefaultsOn(a) ==
    IF ActionType(a) = "set_power"
    THEN (IF Get(a, "is_on", TRUE) THEN 1 ELSE 0)
    ELSE Get(a, "brightness", 1)

\* bool(action_dict.get("is_on", False)) as 1/0, and
\* float(action_dict.get("brightness", 0.0)).
ActionArg(a) ==
    IF ActionType(a) = "set_power"
    THEN (IF Get(a, "is_on", FALSE) THEN 1 ELSE 0)
    ELSE Get(a, "brightness", 0)

SkippedIgnoringBlankId(a) == ActionType(a) \notin Known

\* `if not device_id: continue`, and the if/elif on the type without an else.
Skipped(a) == ActionDevice(a) = "" \/ ActionType(a) \notin Known

\* POST /scenarios/{scenario_id}/trigger arrives.
TrigStart(t, I) ==
    /\ pc[t] = "idle" /\ tpc[t] = "none"
    /\ app = "up"
    /\ \E i \in I : tsid' = [tsid EXCEPT ![t] = i]
    /\ sop' = [sop EXCEPT ![t] = "trigger"]
    /\ tpc' = [tpc EXCEPT ![t] = "sc_lock"]
    /\ snap' = [snap EXCEPT ![t] = [c \in Ctl |-> LedState(isOn[c], brightness[c])]]
    /\ res' = [res EXCEPT ![t] = "none"]
    /\ UNCHANGED <<regVars, ctlVars, pwmVars, histVars, argVars, pc, held, devices,
                   ret, pre, listed, call, darg, cont, scenarios, scLock, tsc, ti,
                   executed, http, sout, dispatched, replaced>>
    /\ UNCHANGED <<drv, envVars>>

TrigFetchedFallsBack(t) ==
    /\ tpc[t] = "got"
    /\ IF res[t] = "NotFound" /\ scenarios = <<>>
       THEN /\ http' = [http EXCEPT ![t] = "404"]
            /\ tpc' = [tpc EXCEPT ![t] = "done"]
            /\ UNCHANGED <<tsc, ti, executed>>
       ELSE /\ tsc' = [tsc EXCEPT ![t] = IF res[t] = "NotFound"
                                          THEN scenarios[1].actions
                                          ELSE sout[t][1].actions]
            /\ ti' = [ti EXCEPT ![t] = 1]
            /\ executed' = [executed EXCEPT ![t] = <<>>]
            /\ tpc' = [tpc EXCEPT ![t] = "loop"]
            /\ http' = http
    /\ UNCHANGED <<regVars, ctlVars, pwmVars, histVars, argVars, pc, held, devices,
                   ret, pre, res, listed, call, darg, cont, scenarios, scLock, sop,
                   tsid, sout, dispatched, snap, replaced>>
    /\ UNCHANGED <<drv, envVars>>

\* The try/except around scenarios.get: KeyError becomes the 404 response,
\* otherwise `executed = []` and the loop over scenario.actions begins.
TrigFetched(t) ==
    /\ tpc[t] = "got"
    /\ IF res[t] = "NotFound"
       THEN /\ http' = [http EXCEPT ![t] = "404"]
            /\ tpc' = [tpc EXCEPT ![t] = "done"]
            /\ UNCHANGED <<tsc, ti, executed>>
       ELSE /\ tsc' = [tsc EXCEPT ![t] = sout[t][1].actions]
            /\ ti' = [ti EXCEPT ![t] = 1]
            /\ executed' = [executed EXCEPT ![t] = <<>>]
            /\ tpc' = [tpc EXCEPT ![t] = "loop"]
            /\ http' = http
    /\ UNCHANGED <<regVars, ctlVars, pwmVars, histVars, argVars, pc, held, devices,
                   ret, pre, res, listed, call, darg, cont, scenarios, scLock, sop,
                   tsid, sout, dispatched, snap, replaced>>
    /\ UNCHANGED <<drv, envVars>>

\* An action without device_id or of an unknown type: `continue`.
TrigSkip(t) ==
    /\ tpc[t] = "loop" /\ ti[t] <= Len(tsc[t])
    /\ Skipped(tsc[t][ti[t]])
    /\ ti' = [ti EXCEPT ![t] = ti[t] + 1]
    /\ UNCHANGED <<regVars, ctlVars, pwmVars, histVars, argVars, pc, held, devices,
                   ret, pre, res, listed, call, darg, cont, scenarios, scLock, sop,
                   tpc, tsid, tsc, executed, http, sout, dispatched, snap, replaced>>
    /\ UNCHANGED <<drv, envVars>>

\* The action at the loop's position in the scenario stored now.
TrigCurrent(t) ==
    IF ScHas(scenarios, tsid[t]) /\ ti[t] <= Len(ScLookup(scenarios, tsid[t]).actions)
    THEN ScLookup(scenarios, tsid[t]).actions[ti[t]]
    ELSE tsc[t][ti[t]]

TrigDispatchReadsRegistry(t) ==
    /\ tpc[t] = "loop" /\ ti[t] <= Len(tsc[t])
    /\ ~Skipped(tsc[t][ti[t]])
    /\ op' = [op EXCEPT ![t] = ActionType(TrigCurrent(t))]
    /\ id' = [id EXCEPT ![t] = ActionDevice(TrigCurrent(t))]
    /\ arg' = [arg EXCEPT ![t] = ActionArg(TrigCurrent(t))]
    /\ held' = [held EXCEPT ![t] = NoCtl]
    /\ res' = [res EXCEPT ![t] = "none"]
    /\ pc' = [pc EXCEPT ![t] = "reg_lock"]
    /\ tpc' = [tpc EXCEPT ![t] = "await"]
    /\ dispatched' = [dispatched EXCEPT ![t] = Append(dispatched[t], ti[t])]
    /\ UNCHANGED <<regVars, ctlVars, pwmVars, histVars, nops, created, devices,
                   ret, pre, listed, call, darg, cont, scenarios, scLock, sop,
                   tsid, tsc, ti, executed, http, sout, snap, replaced>>
    /\ UNCHANGED <<drv, envVars>>

\* devices.get_led(device_id).set_power(is_on) / .set_brightness(brightness)
\* is called.
TrigDispatch(t) ==
    /\ tpc[t] = "loop" /\ ti[t] <= Len(tsc[t])
    /\ ~Skipped(tsc[t][ti[t]])
    /\ op' = [op EXCEPT ![t] = ActionType(tsc[t][ti[t]])]
    /\ id' = [id EXCEPT ![t] = ActionDevice(tsc[t][ti[t]])]
    /\ arg' = [arg EXCEPT ![t] = ActionArg(tsc[t][ti[t]])]
    /\ held' = [held EXCEPT ![t] = NoCtl]
    /\ res' = [res EXCEPT ![t] = "none"]
    /\ pc' = [pc EXCEPT ![t] = "reg_lock"]
    /\ tpc' = [tpc EXCEPT ![t] = "await"]
    /\ dispatched' = [dispatched EXCEPT ![t] = Append(dispatched[t], ti[t])]
    /\ UNCHANGED <<regVars, ctlVars, pwmVars, histVars, nops, created, devices,
                   ret, pre, listed, call, darg, cont, scenarios, scLock, sop,
                   tsid, tsc, ti, executed, http, sout, snap, replaced>>
    /\ UNCHANGED <<drv, envVars>>

TrigRecordPrepends(t) ==
    /\ tpc[t] = "await" /\ pc[t] = "idle" /\ res[t] = "ok"
    /\ executed' = [executed EXCEPT ![t] =
                       <<[type |-> op[t], device_id |-> id[t], state |-> ret[t]]>>
                       \o executed[t]]
    /\ ti' = [ti EXCEPT ![t] = ti[t] + 1]
    /\ tpc' = [tpc EXCEPT ![t] = "loop"]
    /\ UNCHANGED <<regVars, ctlVars, pwmVars, histVars, argVars, pc, held, devices,
                   ret, pre, res, listed, call, darg, cont, scenarios, scLock, sop,
                   tsid, tsc, http, sout, dispatched, snap, replaced>>
    /\ UNCHANGED <<drv, envVars>>

\* The controller call returned: executed.append({type, device_id, state}).
TrigRecord(t) ==
    /\ tpc[t] = "await" /\ pc[t] = "idle" /\ res[t] = "ok"
    /\ executed' = [executed EXCEPT ![t] =
                       Append(executed[t],
                              [type |-> op[t], device_id |-> id[t], state |-> ret[t]])]
    /\ ti' = [ti EXCEPT ![t] = ti[t] + 1]
    /\ tpc' = [tpc EXCEPT ![t] = "loop"]
    /\ UNCHANGED <<regVars, ctlVars, pwmVars, histVars, argVars, pc, held, devices,
                   ret, pre, res, listed, call, darg, cont, scenarios, scLock, sop,
                   tsid, tsc, http, sout, dispatched, snap, replaced>>
    /\ UNCHANGED <<drv, envVars>>

TrigAbortContinues(t) ==
    /\ tpc[t] = "await" /\ pc[t] = "idle" /\ res[t] = "NotFound"
    /\ ti' = [ti EXCEPT ![t] = ti[t] + 1]
    /\ tpc' = [tpc EXCEPT ![t] = "loop"]
    /\ UNCHANGED <<regVars, ctlVars, pwmVars, histVars, argVars, pc, held, devices,
                   ret, pre, res, listed, call, darg, cont, scenarios, scLock, sop,
                   tsid, tsc, executed, http, sout, dispatched, snap, replaced>>
    /\ UNCHANGED <<drv, envVars>>

\* devices.get_led raised KeyError inside the loop: nothing in trigger_scenario
\* catches it, the handler ends there and the request is answered
\* 500 Internal Server Error.
TrigAbort(t) ==
    /\ tpc[t] = "await" /\ pc[t] = "idle" /\ res[t] = "NotFound"
    /\ http' = [http EXCEPT ![t] = "500"]
    /\ tpc' = [tpc EXCEPT ![t] = "done"]
    /\ UNCHANGED <<regVars, ctlVars, pwmVars, histVars, argVars, pc, held, devices,
                   ret, pre, res, listed, call, darg, cont, scenarios, scLock, sop,
                   tsid, tsc, ti, executed, sout, dispatched, snap, replaced>>
    /\ UNCHANGED <<drv, envVars>>

\* return {"scenario_id": ..., "executed": executed}
TrigReturn(t) ==
    /\ tpc[t] = "loop" /\ ti[t] > Len(tsc[t])
    /\ http' = [http EXCEPT ![t] = "200"]
    /\ tpc' = [tpc EXCEPT ![t] = "done"]
    /\ UNCHANGED <<regVars, ctlVars, pwmVars, histVars, argVars, pc, held, devices,
                   ret, pre, res, listed, call, darg, cont, scenarios, scLock, sop,
                   tsid, tsc, ti, executed, sout, dispatched, snap, replaced>>
    /\ UNCHANGED <<drv, envVars>>

\* ------------------------------------------------------------ create_app
\* str.lower() on the strings of the settings and of the request headers.
Lower(s) ==
    CASE s = "Mock" -> "mock"
      [] s = "RPI" -> "rpi"
      [] s = "Bearer" -> "bearer"
      [] s = "BEARER" -> "bearer"
      [] s = "Basic" -> "basic"
      [] OTHER -> s

\* Values of NIGHTLIGHT_GPIO_BACKEND: the two backends as written in the
\* documentation, with blanks and capitals, and names of no backend.
BackendNames == {"mock", "rpi", " Mock ", "RPI", "gpio", ""}

create_pwm_outputLenient(backend) ==
    IF Lower(Strip(backend)) = "rpi" THEN "rpi" ELSE "mock"

\* create_pwm_output: the class of the PwmOutput it returns, or the ValueError
\* it raises.
create_pwm_output(backend) ==
    LET backend_norm == Lower(Strip(backend)) IN
    IF backend_norm = "mock" THEN "mock"
    ELSE IF backend_norm = "rpi" THEN "rpi"
    ELSE "ValueError"

\* The LedController build_registry makes around a PwmOutput of class b.
ControllerOn(b) == CHOOSE c \in Ctl : Backend(c) = b

\* create_app(settings, registry): `registry or build_registry(settings)` runs
\* before FastAPI(...).  build_registry registers one LED under
\* settings.device_id on the PwmOutput of create_pwm_output; its ValueError
\* leaves create_app, and no application exists.
CreateApp ==
    /\ app = "none"
    /\ IF boot.registry
       THEN /\ app' = "up"
            /\ UNCHANGED <<reg, everReg, created>>
       ELSE IF create_pwm_output(boot.gpio_backend) = "ValueError"
       THEN /\ app' = "failed"
            /\ UNCHANGED <<reg, everReg, created>>
       ELSE LET c == ControllerOn(create_pwm_output(boot.gpio_backend)) IN
            /\ reg' = Put(<<>>, "x", c)
            /\ everReg' = {c}
            /\ created' = {c}
            /\ app' = "up"
    /\ UNCHANGED <<regLock, drainedBy, ctlVars, pwmVars, histVars, nops, pc, op, id,
                   arg, held, devices, ret, pre, res, listed, call, darg, cont>>
    /\ UNCHANGED scenVars
    /\ UNCHANGED <<drv, failedCall, hdr, boot, botVars>>

\* ------------------------------------------------------------ require_auth
\* settings.api_token, a token that differs from it, and one with a character
\* above 0x7F (header bytes reach the handler decoded as latin-1).
ApiToken == "secret-token-0001"
OtherToken == "secret-token-0002"
Latin1Token == "secret-token-00e9"
IsAscii(s) == s # Latin1Token

\* The Authorization headers of a client: none, another scheme, the token
\* under three spellings of the scheme, and two other tokens.
Headers ==
    { [scheme |-> "", credentials |-> ""],
      [scheme |-> "Basic", credentials |-> ApiToken],
      [scheme |-> "Bearer", credentials |-> ApiToken],
      [scheme |-> "bearer", credentials |-> ApiToken],
      [scheme |-> "Bearer", credentials |-> OtherToken],
      [scheme |-> "Bearer", credentials |-> Latin1Token] }

\* The requests of a client: a route that depends on get_auth with each of
\* the headers, and /health.
Requests ==
    { [path |-> "/api", scheme |-> h.scheme, credentials |-> h.credentials] : h \in Headers }
    \cup { [path |-> "/health", scheme |-> "", credentials |-> ""] }

\* secrets.compare_digest(a, b) on two str: TypeError when either has a
\* non-ASCII character, else whether they are equal.
compare_digest(a, b) ==
    IF ~IsAscii(a) \/ ~IsAscii(b) THEN "TypeError"
    ELSE IF a = b THEN "True" ELSE "False"

require_authAnyBearer(r) ==
    IF r.scheme = "" \/ Lower(r.scheme) # "bearer" THEN "401" ELSE "ok"

\* require_auth on what HTTPBearer(auto_error=False) hands it: credentials is
\* None without a header; otherwise the scheme must lower-case to "bearer" and
\* compare_digest must accept the token.  "ok" is the AuthContext, "401" the
\* HTTPException, "TypeError" the exception of compare_digest.
require_auth(r) ==
    IF r.scheme = "" \/ Lower(r.scheme) # "bearer" THEN "401"
    ELSE LET d == compare_digest(r.credentials, ApiToken) IN
         IF d = "TypeError" THEN "TypeError"
         ELSE IF d = "False" THEN "401" ELSE "ok"

\* The operations of the registry and the controllers that a route calls.
HttpOps == {"list", "state", "set_power", "set_brightness"}

\* A client sends its next request.
NewRequest(t) ==
    /\ pc[t] = "idle" /\ tpc[t] \in {"none", "done"}
    /\ app = "up"
    /\ \E r \in Requests \ {hdr[t]} : hdr' = [hdr EXCEPT ![t] = r]
    /\ http' = [http EXCEPT ![t] = "none"]
    /\ UNCHANGED <<regVars, ctlVars, pwmVars, histVars, argVars, pc, held, devices,
                   ret, pre, res, listed, call, darg, cont, scenarios, scLock, sop,
                   tpc, tsid, tsc, ti, executed, sout, dispatched, snap, replaced>>
    /\ UNCHANGED <<drv, failedCall, app, boot, botVars>>

\* get_auth fails before the route's function runs: the HTTPException is the
\* 401 response; the TypeError is caught by nothing and the server answers 500.
Reject(t) ==
    /\ pc[t] = "idle" /\ tpc[t] \in {"none", "done"}
    /\ hdr[t].path = "/api"
    /\ require_auth(hdr[t]) # "ok"
    /\ http' = [http EXCEPT ![t] = IF require_auth(hdr[t]) = "401" THEN "401" ELSE "500"]
    /\ UNCHANGED <<regVars, ctlVars, pwmVars, histVars, argVars, pc, held, devices,
                   ret, pre, res, listed, call, darg, cont, scenarios, scLock, sop,
                   tpc, tsid, tsc, ti, executed, sout, dispatched, snap, replaced>>
    /\ UNCHANGED <<drv, envVars>>

\* GET /health: no get_auth dependency.
Health(t) ==
    /\ pc[t] = "idle" /\ tpc[t] \in {"none", "done"}
    /\ hdr[t].path = "/health"
    /\ http' = [http EXCEPT ![t] = "200"]
    /\ UNCHANGED <<regVars, ctlVars, pwmVars, histVars, argVars, pc, held, devices,
                   ret, pre, res, listed, call, darg, cont, scenarios, scLock, sop,
                   tpc, tsid, tsc, ti, executed, sout, dispatched, snap, replaced>>
    /\ UNCHANGED <<drv, envVars>>

\* get_auth returned the AuthContext: the function of a device route runs.
HandleDevice(t) ==
    /\ hdr[t].path = "/api"
    /\ require_auth(hdr[t]) = "ok"
    /\ Start(t, {1})
    /\ op'[t] \in HttpOps

\* The same for upsert_scenario and the scenario reads; one request on the
\* scenarios per client.
HandleScenario(t) ==
    /\ hdr[t].path = "/api"
    /\ tpc[t] = "none"
    /\ require_auth(hdr[t]) = "ok"
    /\ ScStart(t, {<<>>})
    /\ sop'[t] \in {"upsert", "list"}

\* The same for trigger_scenario.
HandleTrigger(t) ==
    /\ hdr[t].path = "/api"
    /\ require_auth(hdr[t]) = "ok"
    /\ TrigStart(t, {"s"})

\* ------------------------------------------------------------ telegram_bot
\* Strings the bot parses are sequences of characters.
Digits == {"0", "1", "2", "5"}
DigitVal(c) == CASE c = "0" -> 0 [] c = "1" -> 1 [] c = "2" -> 2 [] OTHER -> 5

\* str.strip(): without the blanks at both ends.
RECURSIVE LStrip(_)
LStrip(s) == IF s # <<>> /\ Head(s) = " " THEN LStrip(Tail(s)) ELSE s

RECURSIVE RStrip(_)
RStrip(s) ==
    IF s # <<>> /\ s[Len(s)] = " " THEN RStrip(SubSeq(s, 1, Len(s) - 1)) ELSE s

StripChars(s) == RStrip(LStrip(s))

\* str.split(","): the parts between the commas.
RECURSIVE Split(_)
Split(s) ==
    IF \E k \in DOMAIN s : s[k] = ","
    THEN LET k == CHOOSE k \in DOMAIN s :
                      s[k] = "," /\ \A j \in 1..(k - 1) : s[j] # ","
         IN  <<SubSeq(s, 1, k - 1)>> \o Split(SubSeq(s, k + 1, Len(s)))
    ELSE <<s>>

RECURSIVE Natural(_)
Natural(s) ==
    IF s = <<>> THEN 0
    ELSE 10 * Natural(SubSeq(s, 1, Len(s) - 1)) + DigitVal(s[Len(s)])

\* int(text): <<n>> for an optional sign and digits between blanks, <<>> for
\* ValueError.
int(text) ==
    LET s == StripChars(text)
        signed == s # <<>> /\ Head(s) \in {"-", "+"}
        d == IF signed THEN Tail(s) ELSE s
    IN  IF d = <<>> \/ \E k \in DOMAIN d : d[k] \notin Digits THEN <<>>
        ELSE IF signed /\ Head(s) = "-" THEN <<0 - Natural(d)>>
        ELSE <<Natural(d)>>

\* Settings.allowed_chat_ids: the set of the ints between the commas of the
\* setting, empty parts skipped; ok is FALSE when int(part) raises ValueError.
allowed_chat_ids(value) ==
    LET v == StripChars(value)
        parts == Split(v)
        kept == {k \in DOMAIN parts : StripChars(parts[k]) # <<>>}
    IN  IF v = <<>> THEN [ok |-> TRUE, ids |-> {}]
        ELSE IF \E k \in kept : int(StripChars(parts[k])) = <<>>
        THEN [ok |-> FALSE, ids |-> {}]
        ELSE [ok |-> TRUE, ids |-> {int(StripChars(parts[k]))[1] : k \in kept}]

\* parse_brightness_arg: int(text) cut to 0..100, as <<percent>> (the code
\* returns percent / 100.0); <<>> for ValueError.
parse_brightness_arg(value) ==
    LET n == int(StripChars(value))
    IN  IF n = <<>> THEN <<>>
        ELSE IF n[1] < 0 THEN <<0>>
        ELSE IF n[1] > 100 THEN <<100>>
        ELSE n

\* The values of NIGHTLIGHT_TELEGRAM_ALLOWED_CHAT_IDS and of the bot token.
AllowSettings ==
    { <<>>, <<" ">>, <<",">>, <<"1">>, <<"1", ",", "2">>,
      <<" ", "1", " ", ",">>, <<"1", "2">>, <<"1", " ", "2">> }
BotTokens == {"", "tok"}

\* The updates CommandHandler passes to a handler: a message of a chat with a
\* command and its arguments.
Chats == {<<1>>, <<2>>}
Controls == {"status", "on", "off", "brightness"}
ArgTexts == { <<"5", "0">>, <<"1", "5", "0">>, <<"-", "5">>, <<"0">>, <<"x">> }
Updates ==
    [chat : Chats, message : {TRUE}, cmd : {"start", "status", "on", "off"},
     args : {<<>>}]
    \cup [chat : Chats, message : {TRUE}, cmd : {"brightness"},
          args : {<<>>} \cup {<<a>> : a \in ArgTexts}]

\* create_bot: RuntimeError without a bot token; else BotContext with
\* settings.allowed_chat_ids(), and the handlers are registered.
CreateBot ==
    /\ application = "none"
    /\ LET a == allowed_chat_ids(settings.telegram_allowed_chat_ids) IN
       IF settings.telegram_bot_token = "" \/ ~a.ok
       THEN /\ application' = "failed"
            /\ ctx' = ctx
       ELSE /\ application' = "up"
            /\ ctx' = [allowed_chat_ids |-> a.ids]
    /\ UNCHANGED <<settings, update, hpc, apiLog, replies, nupd>>
    /\ UNCHANGED serviceVars

_is_allowedAnyChat(u, c) == u.chat # <<>>

\* _is_allowed: no chat is refused, an empty allowlist allows every chat.
_is_allowed(u, c) ==
    IF u.chat = <<>> THEN FALSE
    ELSE IF c.allowed_chat_ids = {} THEN TRUE
    ELSE u.chat[1] \in c.allowed_chat_ids

\* run_polling hands the next update to its handler, one update at a time.
BotUpdate ==
    /\ application = "up" /\ hpc = "idle"
    /\ nupd < MaxUpdates
    /\ update' \in Updates
    /\ hpc' = "handler"
    /\ nupd' = nupd + 1
    /\ UNCHANGED <<settings, application, ctx, apiLog, replies>>
    /\ UNCHANGED serviceVars

\* The call of ctx.api a handler makes for the update u.
ApiCall(u) ==
    CASE u.cmd = "status" -> [call |-> "get_state", arg |-> 0, chat |-> u.chat]
      [] u.cmd = "on" -> [call |-> "set_power", arg |-> 1, chat |-> u.chat]
      [] u.cmd = "off" -> [call |-> "set_power", arg |-> 0, chat |-> u.chat]
      [] OTHER -> [call |-> "set_brightness",
                   arg |-> parse_brightness_arg(u.args[1])[1], chat |-> u.chat]

\* _start, _status, _on, _off, _brightness up to their first await of the API.
BotHandle ==
    /\ hpc = "handler"
    /\ IF ~update.message
       THEN hpc' = "idle" /\ UNCHANGED <<apiLog, replies>>
       ELSE IF ~_is_allowed(update, ctx)
       THEN /\ replies' = Append(replies, "denied")
            /\ hpc' = "idle" /\ apiLog' = apiLog
       ELSE IF update.cmd = "start"
       THEN /\ replies' = Append(replies, "help")
            /\ hpc' = "idle" /\ apiLog' = apiLog
       ELSE IF update.cmd = "brightness" /\ update.args = <<>>
       THEN /\ replies' = Append(replies, "usage")
            /\ hpc' = "idle" /\ apiLog' = apiLog
       ELSE IF update.cmd = "brightness" /\ parse_brightness_arg(update.args[1]) = <<>>
       THEN /\ replies' = Append(replies, "need_number")
            /\ hpc' = "idle" /\ apiLog' = apiLog
       ELSE /\ apiLog' = Append(apiLog, ApiCall(update))
            /\ hpc' = "api" /\ replies' = replies
    /\ UNCHANGED <<settings, application, ctx, update, nupd>>
    /\ UNCHANGED serviceVars

\* The API answered 2xx: the handler replies with the new state.
ApiReturn ==
    /\ hpc = "api"
    /\ replies' = Append(replies, update.cmd)
    /\ hpc' = "idle"
    /\ UNCHANGED <<settings, application, ctx, update, apiLog, nupd>>
    /\ UNCHANGED serviceVars

\* raise_for_status (or the connection) raised: the handler ends, no reply.
ApiError ==
    /\ hpc = "api"
    /\ hpc' = "idle"
    /\ UNCHANGED <<settings, application, ctx, update, apiLog, replies, nupd>>
    /\ UNCHANGED serviceVars

\* -------------------------------------------------------- specifications
Step(t, B) ==
    \/ Start(t, B)
    \/ RegAcquire(t)
    \/ RegisterLed(t)
    \/ ListDevices(t)
    \/ GetLed(t)
    \/ CloseDrain(t)
    \/ CloseLoop(t)
    \/ CtlAcquire(t)
    \/ State(t)
    \/ SetPowerBegin(t)
    \/ SetPowerEnd(t)
    \/ SetBrightnessBegin(t)
    \/ SetBrightnessOn(t)
    \/ SetBrightnessEnd(t)
    \/ LedClose(t)
    \/ PwmEnter(t)
    \/ MockCall(t)
    \/ RpiCall(t)

\* Concurrent callers, every driver call returns.
Next == \E t \in Threads : Step(t, BFew)

Spec == Init /\ [][Next]_vars

\* One caller, the whole brightness grid.
NextSeq == Step("t1", BGrid)

SpecSeq == Init /\ [][NextSeq]_vars

\* Concurrent callers, a driver call may hang.
NextStuck == \E t \in Threads : Step(t, BFew) \/ DriverHang(t)

SpecStuck == Init /\ [][NextStuck]_vars

\* One caller on the scenario registry: upserts, gets and lists.
NextScen ==
    \/ ScStart("t1", UpsertLists)
    \/ ScAcquire("t1")
    \/ ScenarioUpsert("t1")
    \/ ScenarioGet("t1")
    \/ ScenarioList("t1")

SpecScen == Init /\ [][NextScen]_vars

\* A trigger request and the registry and controller calls it makes.
TrigRun(t, I) ==
    \/ TrigStart(t, I)
    \/ ScAcquire(t)
    \/ ScenarioGet(t)
    \/ TrigFetched(t)
    \/ TrigDispatch(t)
    \/ TrigRecord(t)
    \/ TrigReturn(t)
    \/ RegAcquire(t)
    \/ GetLed(t)
    \/ CtlAcquire(t)
    \/ SetPowerBegin(t)
    \/ SetPowerEnd(t)
    \/ SetBrightnessBegin(t)
    \/ SetBrightnessOn(t)
    \/ SetBrightnessEnd(t)
    \/ PwmEnter(t)
    \/ MockCall(t)

\* One stored scenario "s" of at most MaxActs actions out of Pool.
InitTrig ==
    /\ InitDevices
    /\ AppUp
    /\ scLock = Free
    /\ \E as \in ListsUpTo(Pool, MaxActs) : scenarios = <<Scenario("s", "n1", as)>>
    /\ InitRequests

\* One caller triggers a stored or an unknown scenario.
NextTrig ==
    \/ TrigRun("t1", RawScIds)
    \/ TrigSkip("t1")
    \/ TrigAbort("t1")
    \/ RpiCall("t1")

SpecTrig == InitTrig /\ [][NextTrig]_vars

\* Device "x" on the mock backend, and two stored scenarios of at most MaxPar
\* actions on it.
InitTrig2 ==
    /\ InitDevices
    /\ AppUp
    /\ reg = <<[id |-> "x", ctl |-> "m1"]>>
    /\ scLock = Free
    /\ \E as \in ListsUpTo(Pool2, MaxPar), bs \in ListsUpTo(Pool2, MaxPar) :
           scenarios = <<Scenario("s", "n1", as), Scenario("q", "n1", bs)>>
    /\ InitRequests

\* Two callers, each triggers one of the two scenarios; no action of Pool2 is
\* skipped and "x" is registered, so the loop has no other branch to take.
NextTrig2 ==
    \/ TrigRun("t1", {"s"})
    \/ TrigRun("t2", {"q"})

SpecTrig2 == InitTrig2 /\ [][NextTrig2]_vars

\* One caller on the registry and its controllers, with driver calls of the
\* hardware backend that raise.
NextFail ==
    \/ Step("t1", BFew)
    \/ DriverRaise("t1")
    \/ CtlRaise("t1")

SpecFail == Init /\ [][NextFail]_vars

\* Before create_app: no application; the settings name a backend and
\* create_app builds the registry, or the caller of create_app hands it one.
InitBoot ==
    /\ InitDevices
    /\ app = "none"
    /\ \/ /\ \E b \in BackendNames : boot = [gpio_backend |-> b, registry |-> FALSE]
          /\ reg = <<>>
       \/ boot = [gpio_backend |-> "gpio", registry |-> TRUE]
    /\ scenarios = <<>>
    /\ scLock = Free
    /\ InitRequests

\* create_app, then one caller on what it returned.
NextBoot ==
    \/ CreateApp
    \/ Step("t1", BFew)

SpecBoot == InitBoot /\ [][NextBoot]_vars

\* Device "x" is registered and scenario "s" of two actions is stored.
InitAuth ==
    /\ InitDevices
    /\ AppUp
    /\ \E c \in Ctl : reg = <<[id |-> "x", ctl |-> c]>>
    /\ scLock = Free
    /\ \E as \in UpsertLists : Len(as) = 2 /\ scenarios = <<Scenario("s", "n1", as)>>
    /\ InitRequests

\* One client and its requests through get_auth.
NextAuth ==
    \/ NewRequest("t1")
    \/ Reject("t1")
    \/ Health("t1")
    \/ HandleDevice("t1")
    \/ HandleScenario("t1")
    \/ HandleTrigger("t1")
    \/ ScAcquire("t1")
    \/ ScenarioUpsert("t1")
    \/ ScenarioGet("t1")
    \/ ScenarioList("t1")
    \/ TrigFetched("t1")
    \/ TrigDispatch("t1")
    \/ TrigRecord("t1")
    \/ TrigReturn("t1")
    \/ RegAcquire("t1")
    \/ ListDevices("t1")
    \/ GetLed("t1")
    \/ CtlAcquire("t1")
    \/ State("t1")
    \/ SetPowerBegin("t1")
    \/ SetPowerEnd("t1")
    \/ SetBrightnessBegin("t1")
    \/ SetBrightnessOn("t1")
    \/ SetBrightnessEnd("t1")
    \/ PwmEnter("t1")
    \/ MockCall("t1")
    \/ RpiCall("t1")

SpecAuth == InitAuth /\ [][NextAuth]_vars

\* The one PUT /scenarios/{scenario_id} request of a client arrives.
UpsertRequest(t, I, L) ==
    /\ tpc[t] = "none"
    /\ ScStart(t, L)
    /\ sop'[t] = "upsert" /\ tsid'[t] \in I

\* Device "x" on the mock backend, and scenario "s" of at most MaxPar actions
\* on it.
InitTrigUp ==
    /\ InitDevices
    /\ AppUp
    /\ reg = <<[id |-> "x", ctl |-> "m1"]>>
    /\ scLock = Free
    /\ \E as \in ListsUpTo(Pool2, MaxPar) : scenarios = <<Scenario("s", "n1", as)>>
    /\ InitRequests

\* One caller triggers scenario "s" while another upserts it.
NextTrigUp ==
    \/ TrigRun("t1", {"s"})
    \/ UpsertRequest("t2", {"s"}, UpsertLists)
    \/ ScAcquire("t2")
    \/ ScenarioUpsert("t2")

SpecTrigUp == InitTrigUp /\ [][NextTrigUp]_vars

\* Device "x" on the mock backend; no scenario is stored.
InitRound ==
    /\ InitDevices
    /\ AppUp
    /\ reg = <<[id |-> "x", ctl |-> "m1"]>>
    /\ scLock = Free
    /\ scenarios = <<>>
    /\ InitRequests

\* One client upserts a scenario under some id string, another triggers one.
NextRound ==
    \/ TrigRun("t1", RawScIds)
    \/ UpsertRequest("t2", RawScIds, UpsertLists)
    \/ ScAcquire("t2")
    \/ ScenarioUpsert("t2")

SpecRound == InitRound /\ [][NextRound]_vars

\* The service is up; the bot process is about to start with some settings.
InitBot ==
    /\ InitDevices
    /\ AppUp
    /\ reg = <<[id |-> "x", ctl |-> "m1"]>>
    /\ scenarios = <<>>
    /\ scLock = Free
    /\ RequestLocals
    /\ settings \in [telegram_bot_token : BotTokens,
                     telegram_allowed_chat_ids : AllowSettings]
    /\ application = "none"
    /\ ctx = [allowed_chat_ids |-> {}]
    /\ update = NoUpdate
    /\ hpc = "idle"
    /\ apiLog = <<>>
    /\ replies = <<>>
    /\ nupd = 0

\* create_bot, then the handlers on the updates of run_polling.
NextBot ==
    \/ CreateBot
    \/ BotUpdate
    \/ BotHandle
    \/ ApiReturn
    \/ ApiError

SpecBot == InitBot /\ [][NextBot]_vars

\* ----------------------------------------------------------------- claims
\* A controller call of thread t has returned a LedState.
Returned(t) == pc[t] = "idle" /\ op[t] \in CtlOps /\ res[t] = "ok"

\* C1: every LedState returned by state(), set_power() and set_brightness(),
\* for arbitrary arguments, has is_on == (brightness > 0) and 0 <= brightness <= 1.
C1_ReturnedStateConsistent ==
    \A t \in Threads :
        Returned(t) =>
            /\ ret[t].is_on = FGt(ret[t].brightness, 0)
            /\ FLe(0, ret[t].brightness)
            /\ FLe(ret[t].brightness, Scale)

\* C2: state() never observes a half-applied transition: what it returns is
\* the initial state or the state returned by the last completed set_power /
\* set_brightness call on that controller.
C2_StateSeesCompletedTransition ==
    [][\A t \in Threads :
          (pc[t] = "state_body" /\ pc'[t] = "idle")
              => ret'[t] = lastRes[held[t]]]_vars

\* state() has returned an ON state while the other thread is in the middle of
\* a set_power / set_brightness on the same controller.
C2_Witness ==
    \E t \in Threads, u \in Threads :
        /\ t # u
        /\ Returned(t) /\ op[t] = "state" /\ ret[t].is_on
        /\ held[u] = held[t]
        /\ op[u] \in {"set_power", "set_brightness"}
        /\ pc[u] \in {"pwm_enter", "pwm_body", "sb_on", "sp_on_ret", "sp_off_ret",
                      "sb_on_ret", "sb_off_ret"}

\* C3: RpiPwmOutput.close() always returns: it never waits for the backend's
\* own lock while holding it.
C3_RpiCloseDoesNotBlockOnOwnLock ==
    \A t \in Threads :
        ~(pc[t] = "pwm_nested" /\ pwmLock[held[t]] = t)

\* The thread that holds the lock thread t is waiting for (Free when t is not
\* waiting or the lock is free).
WaitsOn(t) ==
    CASE pc[t] = "reg_lock" -> regLock
      [] pc[t] = "ctl_lock" -> ctlLock[held[t]]
      [] pc[t] \in {"pwm_enter", "pwm_nested"} /\ TakesLock(held[t], call[t]) ->
             pwmLock[held[t]]
      [] OTHER -> Free

RECURSIVE WaitChain(_, _)
\* From t, n waiting threads in a row: each waits for a lock the next one holds.
WaitChain(t, n) ==
    IF n = 0 THEN TRUE
    ELSE WaitsOn(t) \in Threads /\ WaitChain(WaitsOn(t), n - 1)

\* C4: when every driver call returns, no thread waits forever on a registry,
\* controller or backend lock: no thread waits on a cycle of lock holders.
C4_NoThreadWaitsForever ==
    \A t \in Threads : ~WaitChain(t, Cardinality(Threads) + 1)

RECURSIVE MethodsBy(_, _)
\* The methods in a call log that were called from operation o, in order.
MethodsBy(log, o) ==
    IF log = <<>> THEN <<>>
    ELSE IF Head(log)[2] = o THEN <<Head(log)[1]>> \o MethodsBy(Tail(log), o)
    ELSE MethodsBy(Tail(log), o)

\* C5: after DeviceRegistry.close() has returned, the registry is empty and the
\* backend of every controller that was registered has received from the
\* teardown exactly one stop followed by exactly one close.
C5_CloseStopsAndClosesEveryRegistered ==
    \A t \in Threads :
        (pc[t] = "idle" /\ op[t] = "close" /\ res[t] = "ok") =>
            /\ reg = <<>>
            /\ \A c \in everReg : MethodsBy(calls[c], "close") = <<"stop", "close">>

\* C6: after a backend has received close, it is never driven again with
\* change_duty_cycle.
C6_NoDriveAfterClose ==
    \A c \in Ctl :
        \A i \in DOMAIN calls[c], j \in DOMAIN calls[c] :
            (i < j /\ calls[c][i][1] = "close") => calls[c][j][1] # "change"

\* Thread t is in the second part of DeviceRegistry.close(): closing the
\* controllers it drained.
Teardown(t) == op[t] = "close" /\ pc[t] \notin {"idle", "reg_lock", "reg_body"}

\* Thread t will never take another step: it is in a driver call that hangs, or
\* in RpiPwmOutput.close waiting for the lock it holds.
StuckForever(t) ==
    \/ pc[t] = "hung"
    \/ pc[t] = "pwm_nested" /\ pwmLock[held[t]] = t

\* C7: DeviceRegistry.close() holds the membership lock only while it copies
\* and clears the collection.  While it closes the drained controllers (also
\* when that teardown is stuck) the lock is free or held by a thread inside its
\* own short registry section, so list/get/register go through, and get_led
\* never hands out a drained controller (a drained id is NotFound).
C7_TeardownOutsideMembershipLock ==
    /\ [](\A t \in Threads :
              Teardown(t) =>
                  /\ regLock # t
                  /\ regLock # Free => pc[regLock] = "reg_body")
    /\ [][\A u \in Threads :
              (pc[u] = "reg_body" /\ op[u] \in CtlOps /\ pc'[u] = "ctl_lock")
                  => drainedBy[held'[u]] = "none"]_vars

\* A close() is stuck in the teardown of a controller it drained, and another
\* thread is inside get_led, holding the membership lock, for an id that is no
\* longer registered.
C7_Witness ==
    \E t \in Threads, u \in Threads :
        /\ t # u
        /\ Teardown(t) /\ StuckForever(t) /\ drainedBy[held[t]] = t
        /\ pc[u] = "reg_body" /\ regLock = u /\ op[u] \in CtlOps
        /\ Lookup(reg, id[u]) = NoCtl

\* The controller thread t is operating on, when it is inside a controller
\* method or waiting to enter one.
Touches(t, c) ==
    /\ held[t] = c
    /\ pc[t] \notin {"idle", "reg_lock", "reg_body", "close_loop"}
    /\ op[t] # "register"

\* Controller c is stalled: the holder of its lock will never take another step.
Stalled(c) == ctlLock[c] # Free /\ StuckForever(ctlLock[c])

RECURSIVE Active(_, _)
\* Thread t can take a step, now or once the chain of (at most n) lock holders
\* it waits for has moved on.
Active(t, n) ==
    \/ ENABLED Step(t, BFew)
    \/ /\ n > 0
       /\ WaitsOn(t) \in Threads \ {t}
       /\ Active(WaitsOn(t), n - 1)

\* C8: a backend call that never returns stalls only the callers of that
\* controller.  Every thread in an operation that cannot go on is inside a
\* method of a stalled controller (or waiting for its lock); a thread in a
\* registry section or in a method of another controller can always go on.
C8_StuckCallStallsOnlyItsController ==
    \A t \in Threads :
        (pc[t] # "idle" /\ ~Active(t, Cardinality(Threads)))
            => \E c \in Ctl : Touches(t, c) /\ Stalled(c)

\* One thread hangs in a driver call of the rpi controller while the other is
\* inside a method of the mock controller.
C8_Witness ==
    \E t \in Threads, u \in Threads :
        /\ pc[t] = "hung" /\ held[t] = "r1"
        /\ held[u] = "m1" /\ pc[u] = "pwm_body" /\ op[u] \in {"set_power", "set_brightness"}

\* clamp(b, 0, 1) on the grid, written with min and max.
Min(a, b) == IF a <= b THEN a ELSE b
Max(a, b) == IF a >= b THEN a ELSE b
Clamp01(b) == Min(Max(b, 0), Scale)

\* C9: for every b in [-1, 2] and every prior state, after set_brightness(b)
\* the controller's state, the returned LedState and a following state() have
\* brightness == clamp(b, 0, 1) and is_on == (clamp(b, 0, 1) > 0); a clamped
\* value of 0 leaves the backend stopped.
C9_SetBrightnessClamps ==
    \A c \in Ctl :
        (lastOp[c] = "set_brightness" /\ lastArg[c] # NaN /\ ctlLock[c] = Free) =>
            LET e == Clamp01(lastArg[c]) IN
            /\ lastRes[c] = LedState(e > 0, e)
            /\ brightness[c] = e /\ isOn[c] = (e > 0)
            /\ e = 0 => ~started[c]
            /\ \A t \in Threads :
                   (Returned(t) /\ op[t] = "state" /\ held[t] = c)
                       => ret[t] = LedState(e > 0, e)

\* set_brightness(2) was clamped to 1.0 and state() has read it back.
C9_Witness ==
    \E c \in Ctl :
        /\ lastOp[c] = "set_brightness" /\ lastArg[c] = 2 * Scale /\ ctlLock[c] = Free
        /\ Returned("t1") /\ op["t1"] = "state" /\ held["t1"] = c
        /\ ret["t1"] = LedState(TRUE, Scale)

\* C10: set_power(true) on a controller whose brightness is 0 sets the
\* brightness to exactly 1.0, applies duty 100 and returns {is_on: true,
\* brightness: 1.0}.
C10_PowerOnFromZeroIsFull ==
    \A t \in Threads :
        (Returned(t) /\ op[t] = "set_power" /\ arg[t] = 1 /\ pre[t].brightness = 0) =>
            /\ ret[t] = LedState(TRUE, Scale)
            /\ brightness[held[t]] = Scale /\ isOn[held[t]]
            /\ duty[held[t]] = 100 * Scale /\ started[held[t]]

\* set_power(true) has returned on a controller that was OFF when it was called.
C10_Witness ==
    \E t \in Threads :
        /\ Returned(t) /\ op[t] = "set_power" /\ arg[t] = 1
        /\ pre[t] = LedState(FALSE, 0)
        /\ calls[held[t]] # <<>>

\* C11: set_power(false) yields {is_on: false, brightness: 0} from every prior
\* state and leaves the mock backend stopped with duty 0; called again on the
\* state it produced it returns the same state.
C11_PowerOffIsOffAndIdempotent ==
    \A t \in Threads :
        (Returned(t) /\ op[t] = "set_power" /\ arg[t] = 0) =>
            /\ ret[t] = LedState(FALSE, 0)
            /\ brightness[held[t]] = 0 /\ ~isOn[held[t]]
            /\ pre[t] = LedState(FALSE, 0) => ret[t] = pre[t]
            /\ Backend(held[t]) = "mock" => (duty[held[t]] = 0 /\ ~started[held[t]])

\* set_power(false) has returned on a mock controller that was ON with a
\* non-zero duty.
C11_Witness ==
    \E t \in Threads :
        /\ Returned(t) /\ op[t] = "set_power" /\ arg[t] = 0
        /\ Backend(held[t]) = "mock"
        /\ pre[t].is_on /\ pre[t].brightness = 1
        /\ calls[held[t]] = <<<<"change", "set_brightness">>, <<"stop", "set_power">>>>

\* C12: on a mock backend, after every completed set_power / set_brightness
\* call, duty_cycle_percent == brightness * 100 and started == is_on.
C12_MockDutyIsBrightnessTimes100 ==
    \A t \in Threads :
        (Returned(t) /\ op[t] \in {"set_power", "set_brightness"}
                     /\ Backend(held[t]) = "mock") =>
            /\ FEq(duty[held[t]], FMul100(brightness[held[t]]))
            /\ started[held[t]] = isOn[held[t]]

\* C17: get_led returns the device registered under the id and fails with
\* NotFound for an id that is not registered; in both cases the membership and
\* every controller's state are left as they were.
C17_GetLedFindsOrNotFound ==
    [][\A t \in Threads :
          (pc[t] = "reg_body" /\ op[t] \in CtlOps /\ pc'[t] # "reg_body") =>
              /\ IF \E k \in DOMAIN reg : reg[k].id = id[t]
                 THEN /\ \E k \in DOMAIN reg : reg[k].id = id[t] /\ reg[k].ctl = held'[t]
                      /\ res'[t] # "NotFound"
                      /\ pc'[t] = "ctl_lock"
                 ELSE /\ res'[t] = "NotFound"
                      /\ pc'[t] = "idle"
              /\ reg' = reg
              /\ isOn' = isOn /\ brightness' = brightness
              /\ started' = started /\ duty' = duty]_vars

\* One caller's get_led failed on a registry that holds another device, and
\* the other caller's get_led handed it the second of two registered devices.
C17_Witness ==
    \E t \in Threads, u \in Threads :
        /\ pc[t] = "idle" /\ op[t] \in CtlOps /\ res[t] = "NotFound"
        /\ Len(reg) = 2
        /\ pc[u] = "ctl_lock" /\ op[u] \in CtlOps /\ held[u] = reg[2].ctl

\* C19: upsert replaces wholesale: after it the id maps to exactly the
\* payload's name and actions (nothing of the replaced scenario is kept), the
\* registry holds one scenario under that id, and the scenarios under other
\* ids are as before; get returns the stored scenario and list all of them.
C19_UpsertReplacesWholesale ==
    [][\A t \in Threads :
          /\ (tpc[t] = "sc_body" /\ sop[t] = "upsert" /\ tpc'[t] = "done") =>
                LET sc == tsc[t][1] IN
                /\ Cardinality({k \in DOMAIN scenarios' : scenarios'[k].id = sc.id}) = 1
                /\ \A k \in DOMAIN scenarios' :
                       scenarios'[k].id = sc.id =>
                           /\ scenarios'[k].actions = sc.actions
                           /\ scenarios'[k].name = sc.name
                /\ \A k \in DOMAIN scenarios :
                       scenarios[k].id # sc.id => scenarios'[k] = scenarios[k]
                /\ Len(scenarios') =
                       Len(scenarios) + (IF \E k \in DOMAIN scenarios :
                                               scenarios[k].id = sc.id
                                         THEN 0 ELSE 1)
          /\ (tpc[t] = "sc_body" /\ sop[t] = "get" /\ tpc'[t] = "done") =>
                IF \E k \in DOMAIN scenarios : scenarios[k].id = tsid[t]
                THEN /\ res'[t] = "ok"
                     /\ \E k \in DOMAIN scenarios :
                            /\ scenarios[k].id = tsid[t]
                            /\ sout'[t] = <<scenarios[k]>>
                ELSE res'[t] = "NotFound"
          /\ (tpc[t] = "sc_body" /\ sop[t] = "list" /\ tpc'[t] = "done") =>
                sout'[t] = scenarios]_vars

\* upsert(s, [A]) was followed by upsert(s, [B]) while another scenario is
\* stored, and get(s) has returned actions [B].
C19_Witness ==
    \E t \in Threads :
        /\ tpc[t] = "done" /\ sop[t] = "get" /\ res[t] = "ok"
        /\ Len(scenarios) = 2
        /\ replaced[t] # <<>>
        /\ replaced[t][1].id = tsid[t]
        /\ Len(replaced[t][1].actions) = 1
        /\ Len(sout[t][1].actions) = 1
        /\ sout[t][1].actions # replaced[t][1].actions

\* What set_power(a = 1/0) and set_brightness(a) make of a controller state,
\* for a real-valued argument.
Expect(st, o, a) ==
    IF o = "set_power"
    THEN IF a = 1
         THEN LedState(TRUE, IF st.brightness > 0 THEN st.brightness ELSE Scale)
         ELSE LedState(FALSE, 0)
    ELSE LedState(Clamp01(a) > 0, Clamp01(a))

\* The state of device d after the first n of the actions as, applied one
\* after the other to the state st.
RECURSIVE Replay(_, _, _, _)
Replay(st, as, d, n) ==
    IF n = 0 THEN st
    ELSE LET p == Replay(st, as, d, n - 1) IN
         IF ActionDevice(as[n]) = d
         THEN Expect(p, ActionType(as[n]), ActionArg(as[n]))
         ELSE p

\* The actions trigger dispatched, in the order it dispatched them.
DispatchedActs(t) == [k \in 1 .. Len(dispatched[t]) |-> tsc[t][dispatched[t][k]]]

InTrigger(t) == sop[t] = "trigger" /\ tpc[t] \in {"loop", "await", "done"}

\* C13: trigger dispatches the actions in stored order; the i-th record of
\* executed is that of the i-th dispatched action and carries the state its
\* controller call returned; when trigger returns, every device is in the state
\* its dispatched actions produce when applied one after the other.
C13_TriggerReplaysInOrder ==
    \A t \in Threads :
        InTrigger(t) =>
            LET D == dispatched[t]
                A == DispatchedActs(t)
            IN  /\ \A k \in 1 .. (Len(D) - 1) : D[k] < D[k + 1]
                /\ Len(executed[t]) <= Len(D)
                /\ \A k \in 1 .. Len(executed[t]) :
                       /\ executed[t][k].type = ActionType(A[k])
                       /\ executed[t][k].device_id = ActionDevice(A[k])
                       /\ executed[t][k].state =
                              Replay(snap[t][Lookup(reg, ActionDevice(A[k]))], A,
                                     ActionDevice(A[k]), k)
                /\ http[t] = "200" =>
                       /\ Len(executed[t]) = Len(D)
                       /\ \A k \in DOMAIN reg :
                              LedState(isOn[reg[k].ctl], brightness[reg[k].ctl]) =
                                  Replay(snap[t][reg[k].ctl], A, reg[k].id, Len(D))

\* set_power on, then set_brightness to an interior value, on device "x": two
\* records, the second with the final state {is_on: true, brightness: 1/Scale}.
C13_Witness ==
    \E t \in Threads :
        /\ InTrigger(t) /\ http[t] = "200"
        /\ Len(executed[t]) = 2
        /\ executed[t][1] = [type |-> "set_power", device_id |-> "x",
                             state |-> LedState(TRUE, Scale)]
        /\ executed[t][2] = [type |-> "set_brightness", device_id |-> "x",
                             state |-> LedState(TRUE, 1)]
        /\ isOn[Lookup(reg, "x")] /\ brightness[Lookup(reg, "x")] = 1

\* An action trigger must pass over: no device_id after trimming, or a type
\* other than set_power and set_brightness.
Inert(a) ==
    \/ Strip(Get(a, "device_id", "")) = ""
    \/ Strip(Get(a, "type", "")) \notin {"set_power", "set_brightness"}

\* C14: an action with an empty device_id or an unknown type is skipped: no
\* lookup, no change of any device, no record, no error; a returned executed
\* list has one record per other action, and a run never ends on such an
\* action.
C14_InertActionsAreSkipped ==
    /\ [](\A t \in Threads :
             InTrigger(t) =>
                 /\ \A k \in 1 .. Len(dispatched[t]) : ~Inert(tsc[t][dispatched[t][k]])
                 /\ http[t] = "200" =>
                        Len(executed[t]) =
                            Cardinality({i \in DOMAIN tsc[t] : ~Inert(tsc[t][i])})
                 /\ http[t] = "500" => ~Inert(tsc[t][ti[t]]))
    /\ [][\A t \in Threads :
             (tpc[t] = "loop" /\ ti[t] <= Len(tsc[t]) /\ Inert(tsc[t][ti[t]])
                 /\ <<tpc[t], ti[t]>> # <<tpc'[t], ti'[t]>>) =>
                 /\ tpc'[t] = "loop" /\ ti'[t] = ti[t] + 1
                 /\ pc'[t] = "idle"
                 /\ UNCHANGED <<reg, isOn, brightness, started, duty, calls,
                                executed, dispatched, http>>]_vars

\* An action of unknown type that names the unregistered device "zz" came
\* first and the run went on to record the set_power that followed it.
C14_Witness ==
    \E t \in Threads :
        /\ InTrigger(t) /\ http[t] = "200"
        /\ Len(tsc[t]) = 2
        /\ Get(tsc[t][1], "type", "") = "noop"
        /\ Get(tsc[t][1], "device_id", "") = "zz"
        /\ Len(executed[t]) = 1
        /\ executed[t][1].state.is_on

\* trigger ended on a failed device lookup.
Aborted(t) ==
    /\ sop[t] = "trigger" /\ tpc[t] = "done"
    /\ dispatched[t] # <<>>
    /\ Len(executed[t]) < Len(dispatched[t])

\* C15: a set_power / set_brightness action for a device that is not
\* registered makes the lookup fail and ends the run there: no later action is
\* dispatched or recorded, and the devices keep what the earlier actions did.
C15_AbsentDeviceAbortsWithoutRollback ==
    /\ [](\A t \in Threads :
             /\ (InTrigger(t) /\ pc[t] = "idle" /\ tpc[t] # "loop"
                    /\ ti[t] <= Len(tsc[t])
                    /\ ~Inert(tsc[t][ti[t]])
                    /\ ~\E k \in DOMAIN reg :
                           reg[k].id = Strip(Get(tsc[t][ti[t]], "device_id", ""))) =>
                    /\ res[t] = "NotFound"
                    /\ tpc[t] = "done" => Aborted(t)
             /\ Aborted(t) =>
                    LET D == dispatched[t]
                        A == DispatchedActs(t)
                    IN  /\ D[Len(D)] = ti[t]
                        /\ Len(executed[t]) = Len(D) - 1
                        /\ http[t] # "200"
                        /\ \A k \in DOMAIN reg :
                               LedState(isOn[reg[k].ctl], brightness[reg[k].ctl]) =
                                   Replay(snap[t][reg[k].ctl], A, reg[k].id, Len(D) - 1))
    /\ [][\A t \in Threads :
             /\ (InTrigger(t) /\ tpc[t] = "await" /\ pc[t] = "idle"
                    /\ res[t] = "NotFound" /\ tpc'[t] # tpc[t]) =>
                    /\ tpc'[t] = "done"
                    /\ UNCHANGED <<reg, isOn, brightness, started, duty, calls,
                                   executed, dispatched, ti, pc>>
             /\ (sop[t] = "trigger" /\ tpc[t] = "done") =>
                    UNCHANGED <<tpc[t], pc[t], executed[t], dispatched[t]>>]_vars

\* The run lit device "x", then met an action for an unregistered device and
\* ended, with an action still to come; "x" is still lit.
C15_Witness ==
    \E t \in Threads :
        /\ Aborted(t)
        /\ Len(executed[t]) = 1
        /\ ti[t] < Len(tsc[t])
        /\ ~Inert(tsc[t][Len(tsc[t])])
        /\ HasId(reg, "x") /\ isOn[Lookup(reg, "x")]

\* C16: a lookup of an unknown scenario_id or device_id made for a trigger
\* request is answered "not found" (404).
C16_LookupFailureIsNotFoundResponse ==
    \A t \in Threads :
        (sop[t] = "trigger" /\ tpc[t] = "done" /\ res[t] = "NotFound") =>
            http[t] = "404"

\* C18: trigger of a scenario id that is not stored is answered NotFound
\* before any action is looked at: no device lookup, no controller call, and
\* every device stays as it was.
C18_UnknownScenarioTouchesNothing ==
    \A t \in Threads :
        (sop[t] = "trigger" /\ tpc[t] \in {"got", "loop", "await", "done"}
            /\ ~\E k \in DOMAIN scenarios : scenarios[k].id = tsid[t]) =>
            /\ tpc[t] \in {"got", "done"}
            /\ res[t] = "NotFound"
            /\ tpc[t] = "done" => http[t] = "404"
            /\ pc[t] = "idle" /\ op[t] = "none"
            /\ dispatched[t] = <<>> /\ executed[t] = <<>>
            /\ \A c \in Ctl :
                   /\ calls[c] = <<>>
                   /\ LedState(isOn[c], brightness[c]) = snap[t][c]
                   /\ ~started[c] /\ duty[c] = 0

\* The request for the unknown id was answered 404 while a scenario with an
\* action for the registered device "x" is stored.
C18_Witness ==
    \E t \in Threads :
        /\ sop[t] = "trigger" /\ tpc[t] = "done" /\ http[t] = "404"
        /\ HasId(reg, "x")
        /\ scenarios # <<>>
        /\ scenarios[1].actions # <<>>
        /\ ~Inert(scenarios[1].actions[1])
        /\ Strip(Get(scenarios[1].actions[1], "device_id", "")) = "x"

\* The order-preserving interleavings of the first m actions of the scenario
\* thread "t1" runs with the first n of the one "t2" runs, as sequences of
\* <<thread, index>>.
RECURSIVE Merges(_, _)
Merges(m, n) ==
    IF m = 0 /\ n = 0 THEN {<<>>}
    ELSE (IF m > 0 THEN {Append(q, <<"t1", m>>) : q \in Merges(m - 1, n)} ELSE {})
         \cup
         (IF n > 0 THEN {Append(q, <<"t2", n>>) : q \in Merges(m, n - 1)} ELSE {})

\* The state of the shared device after the first k actions of the
\* interleaving M, starting OFF.
RECURSIVE StateAfter(_, _)
StateAfter(M, k) ==
    IF k = 0 THEN LedState(FALSE, 0)
    ELSE LET a == tsc[M[k][1]][M[k][2]] IN
         Expect(StateAfter(M, k - 1), ActionType(a), ActionArg(a))

BothReturned == \A t \in Threads : sop[t] = "trigger" /\ tpc[t] = "done"

\* C20: two triggers that run concurrently on one device each dispatch their
\* own actions in stored order, and the recorded states and the final state
\* of the device are those of one order-preserving interleaving of the two
\* action lists, every controller call being atomic.
C20_ConcurrentTriggersInterleave ==
    BothReturned =>
        /\ \A t \in Threads :
               /\ http[t] = "200"
               /\ Len(executed[t]) = Len(tsc[t])
               /\ \A k \in DOMAIN tsc[t] :
                      /\ dispatched[t][k] = k
                      /\ executed[t][k].type = ActionType(tsc[t][k])
        /\ \E M \in Merges(Len(tsc["t1"]), Len(tsc["t2"])) :
               /\ \A k \in DOMAIN M :
                      executed[M[k][1]][M[k][2]].state = StateAfter(M, k)
               /\ LedState(isOn["m1"], brightness["m1"]) = StateAfter(M, Len(M))

\* set_brightness then set_power(true) returned full brightness for the
\* second: the set_power(false) of the other scenario landed between them.
C20_Witness ==
    /\ BothReturned
    /\ Len(tsc["t1"]) = 2 /\ Len(tsc["t2"]) = 1
    /\ ActionType(tsc["t1"][1]) = "set_brightness"
    /\ ActionType(tsc["t1"][2]) = "set_power" /\ ActionArg(tsc["t1"][2]) = 1
    /\ ActionArg(tsc["t2"][1]) = 0
    /\ executed["t1"][1].state = LedState(TRUE, 1)
    /\ executed["t2"][1].state = LedState(FALSE, 0)
    /\ executed["t1"][2].state = LedState(TRUE, Scale)

\* C25: register_led inserts or replaces by device_id: afterwards the id maps
\* to the registered device, the registry holds exactly one entry for that
\* id, and the entries under other ids are as before.
C25_RegisterInsertsOrReplaces ==
    [][\A t \in Threads :
          (pc[t] = "reg_body" /\ op[t] = "register" /\ pc'[t] # "reg_body") =>
              /\ Cardinality({k \in DOMAIN reg' : reg'[k].id = id[t]}) = 1
              /\ \A k \in DOMAIN reg' : reg'[k].id = id[t] => reg'[k].ctl = held[t]
              /\ \A k \in DOMAIN reg : reg[k].id # id[t] => reg'[k] = reg[k]
              /\ Len(reg') = Len(reg) + (IF \E k \in DOMAIN reg : reg[k].id = id[t]
                                         THEN 0 ELSE 1)
              /\ isOn' = isOn /\ brightness' = brightness]_vars

\* A register call has replaced the device that was registered under its id.
C25_Witness ==
    \E t \in Threads :
        /\ pc[t] = "idle" /\ op[t] = "register" /\ res[t] = "ok"
        /\ Len(reg) = 1 /\ reg[1].ctl = held[t] /\ reg[1].id = id[t]
        /\ Cardinality(everReg) = 2

\* C26: list_devices returns the (device_id, device_type) of the devices
\* registered at one point of time, in one step under the membership lock,
\* and a register or close that comes after it returned does not change the
\* returned list.
C26_ListIsAtomicSnapshot ==
    [][\A t \in Threads :
          /\ (pc[t] = "reg_body" /\ op[t] = "list" /\ pc'[t] # "reg_body") =>
                /\ regLock = t
                /\ Len(listed'[t]) = Len(reg)
                /\ \A k \in DOMAIN reg :
                       listed'[t][k] = [device_id |-> reg[k].id, device_type |-> "led"]
                /\ reg' = reg
          /\ (pc[t] = "idle" /\ op[t] = "list" /\ pc'[t] = "idle") =>
                listed'[t] = listed[t]]_vars

\* The list one caller got still names the device that another caller's
\* close has since removed.
C26_Witness ==
    \E t \in Threads, u \in Threads :
        /\ pc[t] = "idle" /\ op[t] = "list" /\ res[t] = "ok"
        /\ listed[t] # <<>>
        /\ reg = <<>> /\ op[u] = "close"

\* C28: set_power(true) right after set_power(false) yields full brightness
\* whatever the brightness was before the power-off; set_power(true) on a
\* controller that is ON with brightness b > 0 keeps b and applies duty b * 100
\* again.
C28_NoBrightnessMemoryAcrossOff ==
    \A t \in Threads :
        (Returned(t) /\ op[t] = "set_power" /\ arg[t] = 1) =>
            LET c == held[t]
                n == Len(calls[c])
            IN  /\ calls[c][n] = <<"change", "set_power">>
                /\ (n > 1 /\ calls[c][n - 1] = <<"stop", "set_power">>) =>
                       /\ ret[t] = LedState(TRUE, Scale)
                       /\ brightness[c] = Scale /\ duty[c] = 100 * Scale
                /\ (pre[t].is_on /\ FGt(pre[t].brightness, 0)) =>
                       /\ ret[t] = LedState(TRUE, pre[t].brightness)
                       /\ brightness[c] = pre[t].brightness
                       /\ duty[c] = 100 * pre[t].brightness

\* A brightness was set, the light was switched off and then on again.
C28_Witness ==
    \E t \in Threads :
        /\ Returned(t) /\ op[t] = "set_power" /\ arg[t] = 1
        /\ calls[held[t]] = << <<"change", "set_brightness">>, <<"stop", "set_power">>,
                               <<"change", "set_power">> >>

\* C30: a controller that register_led replaced is dropped without being
\* closed: its backend gets no stop or close when it is replaced, and none
\* from a later DeviceRegistry.close().
C30_ReplacedControllerIsNeverClosed ==
    /\ [](\A c \in everReg :
             ((~\E k \in DOMAIN reg : reg[k].ctl = c) /\ drainedBy[c] = "none") =>
                 /\ MethodsBy(calls[c], "close") = <<>>
                 /\ MethodsBy(calls[c], "register") = <<>>)
    /\ [][\A t \in Threads :
             (pc[t] = "reg_body" /\ op[t] = "register" /\ pc'[t] # "reg_body") =>
                 UNCHANGED <<calls, started, duty, released, isOn, brightness>>]_vars

\* DeviceRegistry.close() has returned, and a controller that was lit and
\* then replaced is still lit and has had no call from the teardown.
C30_Witness ==
    \E t \in Threads, c \in everReg :
        /\ pc[t] = "idle" /\ op[t] = "close" /\ res[t] = "ok"
        /\ drainedBy[c] = "none"
        /\ started[c] /\ isOn[c]
        /\ \E d \in everReg : drainedBy[d] = t /\ MethodsBy(calls[d], "close") # <<>>

\* A backend method body of thread t is about to run change_duty_cycle.
AtChange(t) == pc[t] = "pwm_body" /\ call[t] = "change"

\* C24: both backends auto-start on change_duty_cycle: the call leaves the
\* backend started with the duty it was given, whether it was started or not;
\* the hardware backend then issues driver start() when it was not started and
\* driver ChangeDutyCycle() only when it was; the driver object runs exactly
\* while the backend is started, and no sequence of controller operations
\* issues ChangeDutyCycle to a driver that does not run.
C24_ChangeDutyCycleAutoStarts ==
    /\ [](\A c \in Ctl : ~drv[c].misuse /\ (Backend(c) = "rpi" => drv[c].running = started[c]))
    /\ [][\A t \in Threads :
             (AtChange(t) /\ pc'[t] # pc[t]) =>
                 LET c == held[t] IN
                 /\ started'[c] /\ duty'[c] = darg[t]
                 /\ Backend(c) = "rpi" =>
                        /\ drv'[c].running
                        /\ drv'[c].last = (IF started[c] THEN "ChangeDutyCycle" ELSE "start")]_vars

\* The hardware backend was stopped by a power-off and then started again by
\* the driver's start().
C24_Witness ==
    \E c \in Ctl :
       /\ Backend(c) = "rpi"
       /\ drv[c].last = "start" /\ drv[c].running /\ started[c]
       /\ \E i \in DOMAIN calls[c] : calls[c][i][1] = "stop" /\ i < Len(calls[c])
                                     /\ calls[c][Len(calls[c])][1] = "change"

\* The last call on controller c that a driver error ended, when no backend
\* call was made on c since and no call is inside c.
FailedLast(c) ==
    /\ failedCall[c].op # "none"
    /\ failedCall[c].n = Len(calls[c])
    /\ ctlLock[c] = Free

\* set_power(true) issued from OFF was ended by the error.
FailedPowerOn(c) ==
    /\ FailedLast(c)
    /\ failedCall[c].op = "set_power" /\ failedCall[c].arg = 1
    /\ ~failedCall[c].pre.is_on

\* set_brightness(0) issued from ON was ended by the error.
FailedZero(c) ==
    /\ FailedLast(c)
    /\ failedCall[c].op = "set_brightness" /\ FEq(_clamp(failedCall[c].arg, 0, Scale), 0)
    /\ failedCall[c].pre.is_on

\* Thread t has state() of controller c as its last call, returned.
StateReturned(t, c) ==
    pc[t] = "idle" /\ op[t] = "state" /\ res[t] = "ok" /\ held[t] = c

C29_WitnessPowerOn ==
    \E c \in Ctl, t \in Threads : FailedPowerOn(c) /\ StateReturned(t, c)

\* The duty the backend of c puts out: its duty cycle while started, none
\* when the hardware backend is stopped.
BackendDuty(c) == IF Backend(c) = "rpi" /\ ~started[c] THEN 0 ELSE duty[c]

\* Thread t is about to return from set_power / set_brightness.
AtSetReturn(t) == pc[t] \in {"sp_on_ret", "sp_off_ret", "sb_on_ret", "sb_off_ret"}

\* The error of a backend call leaves set_power / set_brightness: the caller
\* gets it and the controller lock is free.
RaisePropagates(t) ==
    (pc[t] = "raised" /\ cont[t] # "cl_stop_ret" /\ pc'[t] # pc[t]) =>
        /\ pc'[t] = "idle" /\ res'[t] = "error"
        /\ ctlLock'[held[t]] = Free

\* A set_power / set_brightness call that returns on a controller with a failed
\* call behind it leaves is_on == (brightness > 0) and duty == brightness * 100.
NextCallReestablishes(t) ==
    (AtSetReturn(t) /\ pc'[t] = "idle" /\ failedCall[held[t]].op # "none") =>
        /\ isOn'[held[t]] = FGt(brightness'[held[t]], 0)
        /\ FEq(BackendDuty(held[t])', FMul100(brightness'[held[t]]))

\* C21: a backend call that raises inside set_power or set_brightness
\* propagates to the caller and releases the controller lock, and the next
\* successful set_power / set_brightness call on that controller re-establishes
\* is_on == (brightness > 0) and backend duty == brightness * 100.
C21_FailedCallIsRepairedByNextCall ==
    [][\A t \in Threads : RaisePropagates(t) /\ NextCallReestablishes(t)]_vars

\* The same for calls that neither pass NaN nor find it stored: this part holds.
C21_RepairedForRealArguments ==
    [][\A t \in Threads :
          /\ RaisePropagates(t)
          /\ (arg[t] # NaN /\ pre[t].brightness # NaN) => NextCallReestablishes(t)]_vars

\* A call on a controller with a failed call behind it has returned.
C21_RepairReached ==
    \E t \in Threads :
       /\ Returned(t) /\ op[t] \in {"set_power", "set_brightness"}
       /\ failedCall[held[t]].op # "none"
       /\ failedCall[held[t]].n < Len(calls[held[t]])

\* The backend calls LedController.close has made on controller c, in order.
CloseCalls(c) == MethodsBy(calls[c], "close")

\* Thread t is inside LedController.close, holds the controller lock, and
\* waits inside the backend's close() for the lock that close() itself holds.
CloseStuck(t) ==
    /\ op[t] = "close" /\ held[t] \in Ctl
    /\ ctlLock[held[t]] = t
    /\ pc[t] = "pwm_nested" /\ pwmLock[held[t]] = t

\* C22: LedController.close() calls backend stop() and then backend close(),
\* calls close() also when stop() raised, and releases the controller lock
\* afterwards in both cases: it is never left holding the lock for good.
C22_CloseStopsThenClosesAndReleases ==
    /\ [](\A c \in Ctl : CloseCalls(c) \in {<<>>, <<"stop">>, <<"stop", "close">>})
    /\ [](\A t \in Threads : ~CloseStuck(t))
    /\ [][\A t \in Threads :
            (pc[t] = "raised" /\ cont[t] = "cl_stop_ret" /\ pc'[t] # pc[t]) =>
                pc'[t] = "pwm_enter" /\ call'[t] = "close"]_vars

\* The call order and the close() after a stop() that raised, without the
\* release of the lock: this part holds.
C22_CloseCallsInOrder ==
    /\ [](\A c \in Ctl : CloseCalls(c) \in {<<>>, <<"stop">>, <<"stop", "close">>})
    /\ [][\A t \in Threads :
            (pc[t] = "raised" /\ cont[t] = "cl_stop_ret" /\ pc'[t] # pc[t]) =>
                pc'[t] = "pwm_enter" /\ call'[t] = "close"]_vars

\* stop() raised inside LedController.close and close() was called after it.
C22_CloseAfterRaiseReached ==
    \E t \in Threads :
        /\ op[t] = "close" /\ held[t] \in Ctl
        /\ cont[t] = "cl_close_raised" /\ call[t] = "close"
        /\ CloseCalls(held[t]) = <<"stop", "close">>

\* The backend names that are 'mock' and 'rpi' once trimmed and lower-cased.
MockNames == {"mock", " Mock "}
RpiNames == {"rpi", "RPI"}

\* No request has been received.
NothingServed ==
    /\ nops = 0
    /\ \A t \in Threads :
          pc[t] = "idle" /\ op[t] = "none" /\ tpc[t] = "none" /\ http[t] = "none"

\* C23: create_pwm_output maps the trimmed, lower-cased name 'mock' or 'rpi' to
\* a PwmOutput and raises a configuration error for every other name; when
\* create_app builds the registry itself, an unknown name means that no
\* application is returned and no request is ever served.
C23_UnknownBackendIsFatalAtConstruction ==
    /\ [][(app = "none" /\ app' # "none" /\ ~boot.registry) =>
             /\ boot.gpio_backend \in MockNames =>
                    app' = "up" /\ reg' = <<[id |-> "x", ctl |-> "m1"]>>
             /\ boot.gpio_backend \in RpiNames =>
                    app' = "up" /\ reg' = <<[id |-> "x", ctl |-> "r1"]>>
             /\ boot.gpio_backend \notin MockNames \cup RpiNames =>
                    app' = "failed" /\ reg' = <<>>]_vars
    /\ [][app = "failed" => app' = "failed"]_vars
    /\ [](app # "up" => NothingServed)

\* create_app was asked to build the registry for the backend name "gpio" and
\* has raised.
C23_Witness ==
    /\ app = "failed" /\ ~boot.registry /\ boot.gpio_backend = "gpio"
    /\ reg = <<>>

\* create_app has built the registry for the name " Mock ", and a request on
\* its device has been answered.
C23_WitnessServed ==
    /\ app = "up" /\ ~boot.registry /\ boot.gpio_backend = " Mock "
    /\ \E t \in Threads : Returned(t) /\ held[t] = "m1"

\* The request of client t is on a route that depends on get_auth.
Protected(r) == r.path = "/api"

\* No valid Bearer token: the header is missing, the scheme is not bearer, or
\* the token differs from the configured api_token.
NoValidToken(r) ==
    \/ r.scheme = ""
    \/ r.scheme \notin {"Bearer", "bearer", "BEARER"}
    \/ r.credentials # ApiToken

\* What a request that is not served leaves as it was: the registry, every
\* device state and backend, and the scenario registry.
ServiceState == <<reg, isOn, brightness, started, duty, calls, scenarios>>

\* While the request of client t has no valid token, no step of its request
\* changes the service state or starts a handler.
Untouched(t) ==
    (Protected(hdr[t]) /\ NoValidToken(hdr[t]) /\ hdr'[t] = hdr[t]) =>
        /\ ServiceState' = ServiceState
        /\ pc'[t] = "idle" /\ tpc'[t] = tpc[t]

\* C27: on the routes behind get_auth, a request with a missing header, a
\* non-bearer scheme or a token different from api_token is answered 401 and
\* changes no device state and no scenario; /health answers without a token.
C27_NoTokenNoChange ==
    [][\A t \in Threads :
          /\ Untouched(t)
          /\ (Protected(hdr[t]) /\ NoValidToken(hdr[t]) /\ http'[t] # http[t]
                 /\ hdr'[t] = hdr[t]) => http'[t] = "401"
          /\ (hdr[t].path = "/health" /\ hdr'[t] = hdr[t]) =>
                 /\ ServiceState' = ServiceState
                 /\ http'[t] = "200"]_vars

\* The same with the answer left open for a token that is not ASCII: this
\* part holds.
C27_NoTokenNoChangeAscii ==
    [][\A t \in Threads :
          /\ Untouched(t)
          /\ (Protected(hdr[t]) /\ NoValidToken(hdr[t]) /\ http'[t] # http[t]
                 /\ hdr'[t] = hdr[t]) =>
                 http'[t] = (IF IsAscii(hdr[t].credentials) THEN "401" ELSE "500")
          /\ (hdr[t].path = "/health" /\ hdr'[t] = hdr[t]) =>
                 /\ ServiceState' = ServiceState
                 /\ http'[t] = "200"]_vars

\* A request with another token was answered 401 after an authorised request
\* had switched the device on.
C27_RejectedReached ==
    \E t \in Threads, c \in Ctl :
        /\ hdr[t] = [path |-> "/api", scheme |-> "Bearer", credentials |-> OtherToken]
        /\ http[t] = "401"
        /\ isOn[c] /\ Len(calls[c]) > 0

\* A request with a token that is not ASCII was answered 500.
C27_ServerErrorReached ==
    \E t \in Threads :
        /\ hdr[t] = [path |-> "/api", scheme |-> "Bearer", credentials |-> Latin1Token]
        /\ http[t] = "500"

\* The controllers in a sequence of drained controllers.
Range(q) == {q[i] : i \in DOMAIN q}

\* Thread t, inside DeviceRegistry.close(), still has controller c to close or
\* is closing it.
Closing(t, c) ==
    /\ Teardown(t)
    /\ c \in Range(devices[t]) \/ (held[t] = c /\ pc[t] # "close_loop")

\* Thread t has returned from DeviceRegistry.close().
Closed(t) == pc[t] = "idle" /\ op[t] = "close" /\ res[t] = "ok"

Fetched(t) == sout[t][1].actions

\* C32: a running trigger works on the scenario object it fetched at its
\* start: what get returned is the scenario stored at that moment, every
\* dispatch is that of the fetched list's action at the loop's position,
\* whatever an upsert of the same id has stored meanwhile, and the run ends
\* having executed exactly the fetched list, never a mixture of two lists.
C32_TriggerRunsTheFetchedScenario ==
    /\ [](\A t \in Threads :
            (InTrigger(t) /\ sout[t] # <<>>) =>
                /\ tsc[t] = Fetched(t)
                /\ \A k \in DOMAIN executed[t] :
                       /\ executed[t][k].type = ActionType(Fetched(t)[k])
                       /\ dispatched[t][k] = k
                /\ http[t] = "200" => Len(executed[t]) = Len(Fetched(t)))
    /\ [][\A t \in Threads :
            /\ (sop[t] = "trigger" /\ tpc[t] = "sc_body" /\ tpc'[t] = "got"
                   /\ ScHas(scenarios, tsid[t])) =>
                   sout'[t] = <<ScLookup(scenarios, tsid[t])>>
            /\ (InTrigger(t) /\ InTrigger(t)') => sout'[t] = sout[t]
            /\ (tpc[t] = "loop" /\ tpc'[t] = "await") =>
                   /\ op'[t] = ActionType(Fetched(t)[ti[t]])
                   /\ arg'[t] = ActionArg(Fetched(t)[ti[t]])]_vars

\* In the middle of a run of two actions, with one executed, an upsert has
\* replaced the fetched scenario by one whose second action differs.
C32_Witness ==
    /\ sop["t1"] = "trigger" /\ tpc["t1"] = "loop"
    /\ Len(Fetched("t1")) = 2 /\ Len(executed["t1"]) = 1 /\ ti["t1"] = 2
    /\ tpc["t2"] = "done" /\ replaced["t2"] = sout["t1"]
    /\ Len(ScLookup(scenarios, "s").actions) = 2
    /\ ScLookup(scenarios, "s").actions[2] # Fetched("t1")[2]

\* The run that an upsert overtook has returned the two fetched actions.
C32_WitnessReturned ==
    /\ InTrigger("t1") /\ http["t1"] = "200"
    /\ Len(Fetched("t1")) = 2 /\ Len(executed["t1"]) = 2
    /\ tpc["t2"] = "done" /\ replaced["t2"] = sout["t1"]
    /\ ScLookup(scenarios, "s").actions # Fetched("t1")

\* The upsert of thread u has stored its scenario, and thread t is about to
\* fetch for a trigger called with the same scenario_id string.
RoundTrip(u, t) ==
    /\ sop[u] = "upsert" /\ tpc[u] = "done"
    /\ sop[t] = "trigger" /\ tpc[t] = "sc_body"
    /\ tsid[t] = tsid[u]

\* C33: for every scenario_id string, after the upsert endpoint has stored a
\* scenario under that id, the trigger endpoint called with the same string
\* finds that scenario.
C33_TriggerFindsWhatUpsertStored ==
    [][\A u \in Threads, t \in Threads :
          (RoundTrip(u, t) /\ tpc'[t] # tpc[t]) =>
              res'[t] = "ok" /\ sout'[t] = tsc[u]]_vars

\* The same for id strings without blanks around them: this part holds.
C33_FindsForTrimmedIds ==
    [][\A u \in Threads, t \in Threads :
          (RoundTrip(u, t) /\ Strip(tsid[u]) = tsid[u] /\ tpc'[t] # tpc[t]) =>
              res'[t] = "ok" /\ sout'[t] = tsc[u]]_vars

\* A trigger called with the id string of a stored plain id has fetched it.
C33_RoundTripReached ==
    \E u \in Threads, t \in Threads :
        /\ sop[u] = "upsert" /\ tpc[u] = "done"
        /\ sop[t] = "trigger" /\ tpc[t] = "got" /\ tsid[t] = tsid[u]
        /\ res[t] = "ok" /\ sout[t] = tsc[u]

\* A trigger called with " s ", after an upsert under " s ", was answered 404.
C33_NotFoundReached ==
    \E u \in Threads, t \in Threads :
        /\ sop[u] = "upsert" /\ tpc[u] = "done" /\ tsid[u] = " s "
        /\ sop[t] = "trigger" /\ tsid[t] = " s " /\ http[t] = "404"
        /\ ScHas(scenarios, "s")

\* The action dict a has no value for the argument of its call.
Defaulted(a) ==
    \/ ActionType(a) = "set_power" /\ "is_on" \notin DOMAIN a
    \/ ActionType(a) = "set_brightness" /\ "brightness" \notin DOMAIN a

\* C34: in trigger a set_power action without is_on dispatches
\* set_power(false) and a set_brightness action without brightness dispatches
\* set_brightness(0.0); each turns the device OFF and is recorded with the
\* state {is_on: false, brightness: 0}.
C34_MissingFieldsDefaultToOff ==
    [][\A t \in Threads :
          (tpc[t] \in {"loop", "await"} /\ ti[t] <= Len(tsc[t])
              /\ Defaulted(tsc[t][ti[t]])) =>
            /\ (tpc[t] = "loop" /\ tpc'[t] = "await") =>
                   /\ op'[t] = ActionType(tsc[t][ti[t]])
                   /\ arg'[t] = 0
            /\ (tpc[t] = "await" /\ Len(executed'[t]) = Len(executed[t]) + 1) =>
                   /\ executed'[t][Len(executed'[t])].state = LedState(FALSE, 0)
                   /\ held[t] \in Ctl
                   /\ ~isOn[held[t]] /\ brightness[held[t]] = 0
                   /\ ~started[held[t]]]_vars

\* A trigger has turned the device ON and then recorded an action without its
\* argument: the record says OFF.
C34_Witness ==
    \E t \in Threads : \E k \in DOMAIN executed[t] :
        /\ k > 1 /\ k <= Len(dispatched[t])
        /\ executed[t][k - 1].state.is_on
        /\ executed[t][k - 1].device_id = executed[t][k].device_id
        /\ Defaulted(tsc[t][dispatched[t][k]])
        /\ executed[t][k].state = LedState(FALSE, 0)

\* Both kinds of action without argument have been recorded in one run.
C34_WitnessBothKinds ==
    \E t \in Threads : \E k, l \in DOMAIN executed[t] :
        /\ k <= Len(dispatched[t]) /\ l <= Len(dispatched[t])
        /\ Defaulted(tsc[t][dispatched[t][k]]) /\ executed[t][k].type = "set_power"
        /\ Defaulted(tsc[t][dispatched[t][l]]) /\ executed[t][l].type = "set_brightness"

\* The chat of the update u is not in the non-empty allowlist of c.
Outsider(u, c) ==
    /\ c.allowed_chat_ids # {}
    /\ u.chat = <<>> \/ u.chat[1] \notin c.allowed_chat_ids

\* The update u is a command that needs the API, with the argument it needs.
Wellformed(u) ==
    /\ u.message /\ u.chat # <<>> /\ u.cmd \in Controls
    /\ u.cmd = "brightness" =>
           u.args # <<>> /\ parse_brightness_arg(u.args[1]) # <<>>

\* C35: in the Telegram bot a command (/status, /on, /off, /brightness) from a
\* chat whose id is not in a non-empty allowlist never results in a call of the
\* nightlight API: the handler replies with a refusal and returns; with an empty
\* allowlist every chat is allowed.
C35_AllowlistGuardsTheApi ==
    /\ [](\A k \in DOMAIN apiLog :
              ~Outsider([chat |-> apiLog[k].chat], ctx))
    /\ [][(hpc = "handler" /\ update.cmd \in Controls /\ Outsider(update, ctx)) =>
              /\ apiLog' = apiLog
              /\ hpc' = "idle"
              /\ update.message => replies' = Append(replies, "denied")]_vars
    /\ [][(hpc = "handler" /\ Wellformed(update) /\ ctx.allowed_chat_ids = {}) =>
              /\ apiLog' = Append(apiLog, ApiCall(update))
              /\ hpc' = "api"]_vars

\* A command of a chat outside the allowlist {1} has been refused, and the API
\* has never been called.
C35_Witness ==
    /\ application = "up" /\ hpc = "idle" /\ nupd > 0
    /\ update.cmd \in Controls /\ Outsider(update, ctx)
    /\ replies # <<>> /\ replies[Len(replies)] = "denied"
    /\ apiLog = <<>>

\* With an empty allowlist, from a setting that is not the empty string, the
\* commands of two chats have both called the API.
C35_WitnessOpen ==
    /\ ctx.allowed_chat_ids = {} /\ settings.telegram_allowed_chat_ids # <<>>
    /\ Len(apiLog) = 2 /\ apiLog[1].chat # apiLog[2].chat

\* A chat in the allowlist has called the API, then one outside was refused.
C35_WitnessMixed ==
    /\ ctx.allowed_chat_ids = {1}
    /\ Len(apiLog) = 1 /\ apiLog[1].chat = <<1>>
    /\ hpc = "idle" /\ update.chat = <<2>> /\ update.cmd \in Controls
    /\ replies[Len(replies)] = "denied"

====
